---- MODULE Spec2Model ----
(***************************************************************************)
(* Board state and lighting of the unhaunter tile map.                     *)
(*                                                                         *)
(* Numbers.  The f32 values of the code are fixed-point integers here:     *)
(* lux is counted in units of 1/64000 (LuxEps units make 0.001), a colour  *)
(* channel in units of 1/100.  A product or quotient is rounded down.      *)
(***************************************************************************)
EXTENDS Integers, Sequences, FiniteSets, TLC

VARIABLES
    \* ---- unlight/src/utils.rs : BoardData as the lighting pipeline sees it
    qt,                 \* the (Position, Behavior) query, in iteration order
    collision_field,    \* bf.collision_field, dense, indexed by tile
    prebaked_lighting,  \* bf.prebaked_lighting, dense, immutable
    light_field,        \* bf.light_field
    exposure_lux,       \* bf.exposure_lux
    \* ---- locals of the last lighting rebuild, kept for inspection
    active_source_ids,
    dynamic_lights,
    wave_edges,
    visited,
    last_op,            \* the operation that produced this state
    rebuilds,           \* lighting rebuilds run in a row since the last change
    lux_log,            \* door-sequence runs: the lux field of each rebuild
    \* ---- uncore/src/components/board/boardposition.rs
    nb_call,            \* the enumeration's arguments: center, dist, from, to
    nb_iter,            \* the NeighborsIterator
    nb_out,             \* the positions next() has returned so far
    nb_done,            \* next() has returned None
    \* ---- ungame/src/board.rs
    ev_bdr,             \* the BoardDataToRebuild events not yet read
    temperature_field,  \* BoardData.temperature_field
    bdr_log,            \* the passes the last boardfield_update ran
    \* ---- src/game.rs
    load,               \* load_level: its event, the map and what the run did
    \* ---- unlight/src/utils.rs : a flood loop in progress
    bfs,                \* the loop's locals and how often each tile was enqueued
    \* ---- boardposition.rs : a call of left / right / top / bottom
    dir,                \* the receiver, the helper called and what it returned
    \* ---- ungearitems/src/components/repellentflask.rs
    flask,              \* the RepellentFlask and the calls made on it
    \* ---- ungame/src/summary.rs
    summary,            \* SummaryData and the app state
    \* ---- src/ghost.rs
    ghost               \* the GhostSprite, its Position and the player's

lightvars == << qt, collision_field, prebaked_lighting, light_field, exposure_lux,
                active_source_ids, dynamic_lights, wave_edges, visited, last_op,
                rebuilds, lux_log >>

nbvars == << nb_call, nb_iter, nb_out, nb_done >>

boardvars == << ev_bdr, temperature_field, bdr_log, load >>

unitvars == << bfs, dir, flask, summary, ghost >>

vars == << lightvars, nbvars, boardvars, unitvars >>

BoardIdle ==
    /\ ev_bdr = << >>
    /\ temperature_field = << >>
    /\ bdr_log = << >>
    /\ load = << >>


UnitIdle ==
    /\ bfs = << >>
    /\ dir = << >>
    /\ flask = << >>
    /\ summary = << >>
    /\ ghost = << >>

\* The variables of a component the specification at hand does not run
NbIdle ==
    /\ nb_call = << >>
    /\ nb_iter = << >>
    /\ nb_out = << >>
    /\ nb_done = FALSE

LightIdle ==
    /\ qt = << >>
    /\ collision_field = << >>
    /\ prebaked_lighting = << >>
    /\ light_field = << >>
    /\ exposure_lux = 0
    /\ active_source_ids = {}
    /\ dynamic_lights = << >>
    /\ wave_edges = << >>
    /\ visited = {}
    /\ last_op = "init"
    /\ rebuilds = 0
    /\ lux_log = << >>

(***************************************************************************)
(* Bounds of the model and constants of the program                        *)
(***************************************************************************)
MapW == 4
MapH == 3
MaxWalls == 1

LuxEps == 64                \* 0.001
LuxOne == 1000 * LuxEps     \* 1.0
ColorOne == 100             \* 1.0 of a colour channel
FalloffNum == 3             \* falloff = 0.75 = 3/4
FalloffDen == 4
DynamicMaxDistance == 30
WaveEdgeDistance == 20

LuxHi == 10 * LuxOne        \* a lamp of 10 lux
LuxLo == 2 * LuxEps         \* a glow of 0.002 lux: dies after two hops

map_size == << MapW, MapH, 1 >>

Tiles == { << x, y, z >> : x \in 0 .. (map_size[1] - 1),
                           y \in 0 .. (map_size[2] - 1),
                           z \in 0 .. (map_size[3] - 1) }

White == << ColorOne, ColorOne, ColorOne >>
Red == << ColorOne, 0, 0 >>
Blue == << 0, 0, ColorOne >>

\* LightFieldData::default() as the rebuild's fresh working field holds it
LightFieldDefault == [ lux |-> 0, color |-> White ]

FreshField == [ t \in Tiles |-> LightFieldDefault ]

(***************************************************************************)
(* unlight/src/utils.rs                                                    *)
(***************************************************************************)
is_in_bounds(pos, ms) ==
    /\ pos[1] >= 0
    /\ pos[2] >= 0
    /\ pos[3] >= 0
    /\ pos[1] < ms[1]
    /\ pos[2] < ms[2]
    /\ pos[3] < ms[3]

\* bf.map_size: the shape the arrays of the board are allocated with
\* (`Array3::from_elem(bf.map_size, ..)`), one more than the highest index
\* of the array on each axis.
shape(arr) ==
    LET hi == CHOOSE t \in DOMAIN arr :
                /\ << t[1] + 1, t[2], t[3] >> \notin DOMAIN arr
                /\ << t[1], t[2] + 1, t[3] >> \notin DOMAIN arr
                /\ << t[1], t[2], t[3] + 1 >> \notin DOMAIN arr
    IN  << hi[1] + 1, hi[2] + 1, hi[3] + 1 >>

blend_colors(c1, lux1, c2, lux2) ==
    LET total_lux == lux1 + lux2
    IN  IF total_lux <= 0
        THEN White
        ELSE << (c1[1] * lux1 + c2[1] * lux2) \div total_lux,
                (c1[2] * lux1 + c2[2] * lux2) \div total_lux,
                (c1[3] * lux1 + c2[3] * lux2) \div total_lux >>

directions == << << 0, 1, 0 >>, << 1, 0, 0 >>, << 0, -1, 0 >>, << -1, 0, 0 >> >>

\* Variant of falloff: the light keeps its strength from hop to hop
falloff_lossless(current_lux) == current_lux

\* current_lux * falloff
falloff(current_lux) == (current_lux * FalloffNum) \div FalloffDen

\* lfs[idx].lux += lux, then the colour blend of lines 315-320 / 375-385
add_light(lfs, idx, lux, color) ==
    LET total == lfs[idx].lux + lux
    IN  [ lfs EXCEPT ![idx] =
            [ lux |-> total,
              color |-> IF total > 0
                        THEN blend_colors(lfs[idx].color, total - lux, color, lux)
                        ELSE color ] ]

\* Variant of dynamic_visit: the see_through test of the neighbour is missing
dynamic_visit_through_walls(st, cf, item, d) ==
    LET n == << item.pos[1] + d[1], item.pos[2] + d[2], item.pos[3] + d[3] >>
        new_lux == (item.lux * FalloffNum) \div FalloffDen
    IN  IF ~is_in_bounds(n, st.ms) THEN st
        ELSE IF n \in st.visited THEN st
        ELSE IF new_lux < LuxEps THEN st
        ELSE [ lfs |-> [ st.lfs EXCEPT ![n].lux = @ + new_lux ],
               visited |-> st.visited \cup {n},
               queue |-> Append(st.queue,
                                [ pos |-> n, distance |-> item.distance - 1,
                                  lux |-> new_lux, color |-> item.color ]),
               count |-> st.count + 1, ms |-> st.ms ]

\* Variant of dynamic_visit: the neighbour is lit and enqueued, never marked
dynamic_visit_unmarked(st, cf, item, d) ==
    LET n == << item.pos[1] + d[1], item.pos[2] + d[2], item.pos[3] + d[3] >>
        new_lux == (item.lux * FalloffNum) \div FalloffDen
    IN  IF ~is_in_bounds(n, st.ms) THEN st
        ELSE IF n \in st.visited THEN st
        ELSE IF ~cf[n].see_through THEN st
        ELSE IF new_lux < LuxEps THEN st
        ELSE [ st EXCEPT !.lfs = [ st.lfs EXCEPT ![n].lux = @ + new_lux ],
                         !.queue = Append(st.queue,
                                          [ pos |-> n, distance |-> item.distance - 1,
                                            lux |-> new_lux, color |-> item.color ]),
                         !.count = st.count + 1 ]

\* One pass of the body of `for &(dx, dy, dz) in &directions` (lines 337-392)
\* for the popped entry `item`; st = [lfs, visited, queue, count, ms], ms
\* being bf.map_size.
dynamic_visit(st, cf, item, d) ==
    LET n == << item.pos[1] + d[1], item.pos[2] + d[2], item.pos[3] + d[3] >>
        new_lux == falloff(item.lux)
    IN  IF ~is_in_bounds(n, st.ms) THEN st
        ELSE IF n \in st.visited THEN st
        ELSE IF ~cf[n].see_through THEN st
        ELSE IF new_lux < LuxEps THEN st
        ELSE [ lfs |-> add_light(st.lfs, n, new_lux, item.color),
               visited |-> st.visited \cup {n},
               queue |-> Append(st.queue,
                                [ pos |-> n, distance |-> item.distance - 1,
                                  lux |-> new_lux, color |-> item.color ]),
               count |-> st.count + 1, ms |-> st.ms ]

\* One iteration of `while let Some(..) = dynamic_queue.pop_front()` (lines 330-393),
\* for a queue that is not empty
dynamic_pop(st, cf) ==
    LET item == Head(st.queue)
        popped == [ st EXCEPT !.queue = Tail(st.queue) ]
    IN  IF item.distance <= 0 \/ item.lux < LuxEps
        THEN popped
        ELSE dynamic_visit(
               dynamic_visit(
                 dynamic_visit(
                   dynamic_visit(popped, cf, item, directions[1]),
                   cf, item, directions[2]),
                 cf, item, directions[3]),
               cf, item, directions[4])

\* The loop runs until pop_front() returns None
RECURSIVE dynamic_loop(_, _)
dynamic_loop(st, cf) ==
    IF st.queue = << >> THEN st ELSE dynamic_loop(dynamic_pop(st, cf), cf)

\* `for (pos, lux, color, distance) in dynamic_lights` (lines 311-325)
RECURSIVE dynamic_seed(_, _, _)
dynamic_seed(st, lights, i) ==
    IF i > Len(lights) THEN st
    ELSE LET l == lights[i]
         IN  dynamic_seed(
               [ lfs |-> add_light(st.lfs, l.pos, l.lux, l.color),
                 visited |-> st.visited \cup {l.pos},
                 queue |-> Append(st.queue,
                                  [ pos |-> l.pos, distance |-> l.distance,
                                    lux |-> l.lux, color |-> l.color ]),
                 count |-> st.count, ms |-> st.ms ],
               lights, i + 1)

\* Returns the working field, the visited array (as the set of its true
\* entries) and propagation_count.
\* The locals as the loop finds them (lines 304-328)
dynamic_start(cf, lfs, lights) ==
    dynamic_seed([ lfs |-> lfs, visited |-> {}, queue |-> << >>, count |-> 0,
                   ms |-> shape(cf) ],
                 lights, 1)

add_dynamic_light_sources(cf, lfs, lights) ==
    dynamic_loop(dynamic_start(cf, lfs, lights), cf)

\* One pass of the body of `for &(dx, dy, dz) in &directions` (lines 425-480)
\* A visit that marks and enqueues the neighbour without `lfs.lux += new_lux`
wave_visit_dark(st, cf, item, d) ==
    LET n == << item.pos[1] + d[1], item.pos[2] + d[2], item.pos[3] + d[3] >>
        new_lux == falloff(item.lux)
    IN  IF ~is_in_bounds(n, st.ms) THEN st
        ELSE IF n \in st.visited THEN st
        ELSE IF ~cf[n].see_through THEN st
        ELSE IF new_lux < LuxEps THEN st
        ELSE [ st EXCEPT !.visited = st.visited \cup {n},
                         !.queue = Append(st.queue,
                                          [ pos |-> n, distance |-> item.distance - 1,
                                            lux |-> new_lux, color |-> item.color ]),
                         !.count = st.count + 1 ]

wave_visit(st, cf, item, d) ==
    LET n == << item.pos[1] + d[1], item.pos[2] + d[2], item.pos[3] + d[3] >>
        new_lux == falloff(item.lux)
    IN  IF ~is_in_bounds(n, st.ms) THEN st
        ELSE IF n \in st.visited THEN st
        ELSE IF ~cf[n].see_through THEN st
        ELSE IF new_lux < LuxEps THEN st
        ELSE [ lfs |-> add_light(st.lfs, n, new_lux, item.color),
               visited |-> st.visited \cup {n},
               queue |-> Append(st.queue,
                                [ pos |-> n, distance |-> item.distance - 1,
                                  lux |-> new_lux, color |-> item.color ]),
               count |-> st.count + 1, ms |-> st.ms ]

\* One iteration of `while let Some(..) = queue.pop_front()` (lines 418-481),
\* for a queue that is not empty
wave_pop(st, cf) ==
    LET item == Head(st.queue)
        popped == [ st EXCEPT !.queue = Tail(st.queue) ]
    IN  IF item.distance <= 0 \/ item.lux < LuxEps
        THEN popped
        ELSE wave_visit(
               wave_visit(
                 wave_visit(
                   wave_visit(popped, cf, item, directions[1]),
                   cf, item, directions[2]),
                 cf, item, directions[3]),
               cf, item, directions[4])

\* The loop runs until pop_front() returns None
RECURSIVE wave_loop(_, _)
wave_loop(st, cf) ==
    IF st.queue = << >> THEN st ELSE wave_loop(wave_pop(st, cf), cf)

\* The queue is seeded with every wave edge (lines 413-415): the edge tiles
\* are neither written nor marked visited.
wave_start(cf, lfs, vis, edges) ==
    [ lfs |-> lfs, visited |-> vis,
      queue |-> [ i \in 1 .. Len(edges) |->
                    [ pos |-> edges[i].pos, distance |-> edges[i].distance,
                      lux |-> edges[i].lux, color |-> edges[i].color ] ],
      count |-> 0, ms |-> shape(cf) ]

propagate_from_wave_edges(cf, lfs, vis, edges) ==
    wave_loop(wave_start(cf, lfs, vis, edges), cf)

\* `as usize` and `as i32`: the cast of a negative i64 to usize adds 2^64, the
\* cast of a usize to i32 reads its low 32 bits as a signed number.  The model
\* gives usize and i32 the same width of 30 bits, which its integers can
\* hold: a wrapped coordinate is above every dimension of a map, and the
\* second cast takes it back.
UsizeModulus == 1073741824

as_usize(x) == x % UsizeModulus

as_i32(u) ==
    LET low == u % UsizeModulus
    IN  IF low >= UsizeModulus \div 2 THEN low - UsizeModulus ELSE low

\* BoardPosition::ndidx
ndidx(pos) == << as_usize(pos[1]), as_usize(pos[2]), as_usize(pos[3]) >>

\* The bounds check of Array3 indexing: `array[idx]` panics when it fails
index_in_range(idx, ms) == idx[1] < ms[1] /\ idx[2] < ms[2] /\ idx[3] < ms[3]

\* identify_active_light_sources, second pass: the lookup
\* `&bf.prebaked_lighting[idx]` of line 129 is out of range for some emitter
identify_panics(pre, q) ==
    \E i \in 1 .. Len(q) :
        /\ q[i].lumens > 0
        /\ q[i].emits_light
        /\ ~index_in_range(ndidx(q[i].pos), map_size)

\* prebaked_lighting.indexed_iter(): row-major, last axis fastest
TileSeq ==
    [ n \in 1 .. (map_size[1] * map_size[2] * map_size[3]) |->
        << (n - 1) \div (map_size[2] * map_size[3]),
           ((n - 1) \div map_size[3]) % map_size[2],
           (n - 1) % map_size[3] >> ]

\* position_to_behavior (lines 99-102): a later entity on a tile replaces an
\* earlier one.  The value is the index in q of the behavior kept.
position_to_behavior(q) ==
    [ p \in { q[i].pos : i \in 1 .. Len(q) } |->
        CHOOSE i \in 1 .. Len(q) :
            /\ q[i].pos = p
            /\ \A j \in 1 .. Len(q) : q[j].pos = p => j <= i ]

is_light_active(pos, q) ==
    LET behaviors == position_to_behavior(q)
    IN  IF pos \in DOMAIN behaviors
        THEN q[behaviors[pos]].emits_light
        ELSE FALSE

\* First pass of identify_active_light_sources (lines 104-120)
active_sources(pre, q) ==
    { s \in UNION { pre[t].source_id : t \in Tiles } :
        \E t \in Tiles : s \in pre[t].source_id /\ is_light_active(t, q) }

\* A test that lists a lamp by its emissivity, switched on or not
is_dynamic_light_even_off(pre, e) ==
    /\ e.lumens > 0
    /\ pre[e.pos].source_id = {}

\* Second pass of identify_active_light_sources (lines 122-139)
is_dynamic_light(pre, e) ==
    /\ e.lumens > 0
    /\ e.emits_light
    /\ pre[e.pos].source_id = {}

collect_dynamic_lights(pre, q) ==
    LET dyn == SelectSeq(q, LAMBDA e : is_dynamic_light(pre, e))
    IN  [ i \in 1 .. Len(dyn) |->
            [ pos |-> dyn[i].pos, lux |-> dyn[i].lumens, color |-> dyn[i].color,
              distance |-> DynamicMaxDistance ] ]

identify_active_light_sources(pre, q) ==
    [ active_source_ids |-> active_sources(pre, q),
      dynamic_lights |-> collect_dynamic_lights(pre, q) ]

\* An application that copies every sourced tile, active or not
apply_prebaked_of_any_source(active, pre, lfs) ==
    [ t \in Tiles |->
        IF /\ pre[t].source_id # {}
           /\ ~(pre[t].lux <= LuxEps)
        THEN [ lux |-> pre[t].lux, color |-> pre[t].color ]
        ELSE lfs[t] ]

apply_prebaked_contributions(active, pre, lfs) ==
    [ t \in Tiles |->
        IF /\ pre[t].source_id # {}
           /\ pre[t].source_id \subseteq active
           /\ ~(pre[t].lux <= LuxEps)
        THEN [ lux |-> pre[t].lux, color |-> pre[t].color ]
        ELSE lfs[t] ]

\* The door states keyed by tile; a later door on a tile replaces an earlier.
collect_door_states(q) ==
    LET doors == { i \in 1 .. Len(q) : q[i].class = "Door" }
    IN  [ p \in { ndidx(q[i].pos) : i \in doors } |->
            LET last == CHOOSE i \in doors :
                            /\ ndidx(q[i].pos) = p
                            /\ \A j \in doors : ndidx(q[j].pos) = p => j <= i
            IN  q[last].state = "Open" ]

Abs(n) == IF n < 0 THEN -n ELSE n

\* A test that takes a closed door for an open one
is_near_any_door(door_states, t) ==
    \E d \in DOMAIN door_states :
        /\ Abs(as_i32(d[1]) - as_i32(t[1])) <= 1
        /\ Abs(as_i32(d[2]) - as_i32(t[2])) <= 1
        /\ Abs(as_i32(d[3]) - as_i32(t[3])) <= 1

is_near_open_door(door_states, t) ==
    \E d \in DOMAIN door_states :
        /\ door_states[d]
        /\ Abs(as_i32(d[1]) - as_i32(t[1])) <= 1
        /\ Abs(as_i32(d[2]) - as_i32(t[2])) <= 1
        /\ Abs(as_i32(d[3]) - as_i32(t[3])) <= 1

is_wave_edge_tile(pre, active, door_states, t) ==
    /\ pre[t].is_wave_edge
    /\ pre[t].source_id # {}
    /\ pre[t].source_id \subseteq active
    /\ is_near_open_door(door_states, t)

find_wave_edge_tiles(pre, active, door_states) ==
    LET edges == SelectSeq(TileSeq,
                           LAMBDA t : is_wave_edge_tile(pre, active, door_states, t))
    IN  [ i \in 1 .. Len(edges) |->
            [ pos |-> edges[i],
              source_id |-> CHOOSE s \in pre[edges[i]].source_id : TRUE,
              lux |-> pre[edges[i]].lux,
              color |-> pre[edges[i]].color,
              distance |-> WaveEdgeDistance ] ]

RECURSIVE sum_lux(_, _)
sum_lux(lfs, i) ==
    IF i > Len(TileSeq) THEN 0 ELSE lfs[TileSeq[i]].lux + sum_lux(lfs, i + 1)

\* An exposure averaged over the lit tiles instead of total_tiles
exposure_of_lit_tiles(lfs) ==
    LET lit == Cardinality({ t \in Tiles : lfs[t].lux > 0 })
        total_lux == sum_lux(lfs, 1)
        avg_lux == IF lit = 0 THEN 0 ELSE total_lux \div lit
    IN  (avg_lux + 2 * LuxOne) \div 2

\* bf.exposure_lux as update_exposure_and_stats computes it (lines 206-209)
exposure_of(lfs) ==
    LET total_tiles == map_size[1] * map_size[2] * map_size[3]
        total_lux == sum_lux(lfs, 1)
        avg_lux == total_lux \div total_tiles
    IN  (avg_lux + 2 * LuxOne) \div 2

update_exposure_and_stats(lfs) ==
    [ exposure_lux |-> exposure_of(lfs), light_field |-> lfs ]

(***************************************************************************)
(* Boards                                                                  *)
(***************************************************************************)
FreeTile == [ player_free |-> TRUE, ghost_free |-> TRUE, see_through |-> TRUE ]
WallTile == [ player_free |-> FALSE, ghost_free |-> FALSE, see_through |-> FALSE ]

\* The collision field of a map whose occluders stand on `walls`
CollisionOf(walls) == [ t \in Tiles |-> IF t \in walls THEN WallTile ELSE FreeTile ]

NoPrebake ==
    [ t \in Tiles |-> [ source_id |-> {}, lux |-> 0, color |-> White,
                        is_wave_edge |-> FALSE ] ]

\* The in-bounds 4-connected neighbours of a tile
Neighbours4(t) ==
    { n \in Tiles : \E i \in 1 .. 4 :
        n = << t[1] + directions[i][1], t[2] + directions[i][2], t[3] + directions[i][3] >> }

\* Occluder layouts: every set of at most MaxWalls tiles, and every full
\* enclosure of one tile.
RECURSIVE SetsUpTo(_)
SetsUpTo(k) ==
    IF k = 0 THEN { {} }
    ELSE LET smaller == SetsUpTo(k - 1)
         IN  smaller \cup { w \cup {t} : w \in smaller, t \in Tiles }

WallSets == SetsUpTo(MaxWalls) \cup { Neighbours4(t) : t \in Tiles }

Occluders(cf) == { t \in Tiles : ~cf[t].see_through }

\* A dynamic light as identify_active_light_sources lists it
DynamicLight(pos, lux, color) ==
    [ pos |-> pos, lux |-> lux, color |-> color, distance |-> DynamicMaxDistance ]

LightLists ==
    { << >> }
    \cup { << DynamicLight(p, l, Red) >> : p \in Tiles, l \in { LuxHi, LuxLo } }
    \cup { << DynamicLight(p, LuxLo, Red), DynamicLight(q, LuxLo, Blue) >> :
             p \in Tiles, q \in Tiles }

(***************************************************************************)
(* SpecFlood: add_dynamic_light_sources applied to a fresh working field,  *)
(* for every map of WallSets and every list of at most two dynamic lights. *)
(***************************************************************************)
InitFlood ==
    /\ qt = << >>
    /\ \E walls \in WallSets : collision_field = CollisionOf(walls)
    /\ prebaked_lighting = NoPrebake
    /\ light_field = FreshField
    /\ exposure_lux = LuxOne
    /\ active_source_ids = {}
    /\ dynamic_lights \in LightLists
    /\ wave_edges = << >>
    /\ visited = {}
    /\ last_op = "init"
    /\ rebuilds = 0
    /\ lux_log = << >>
    /\ NbIdle
    /\ UnitIdle
    /\ BoardIdle

FloodDynamic ==
    /\ last_op = "init"
    /\ \E r \in { add_dynamic_light_sources(collision_field, FreshField, dynamic_lights) } :
           /\ light_field' = r.lfs
           /\ visited' = r.visited
    /\ last_op' = "add_dynamic_light_sources"
    /\ UNCHANGED << qt, collision_field, prebaked_lighting, exposure_lux,
                    active_source_ids, dynamic_lights, wave_edges, rebuilds, lux_log,
                    nbvars, unitvars, boardvars >>

NextFlood == FloodDynamic

SpecFlood == InitFlood /\ [][NextFlood]_vars

(***************************************************************************)
(* SpecWall: a 5x5x1 map without prebaked light and one dynamic source of  *)
(* 10 lux.  The flood runs on the open map, one occluder is added, and the *)
(* flood runs again; lux_log keeps the field of each run.                  *)
(***************************************************************************)
ScenarioSize == << 5, 5, 1 >>

ScenarioTiles == { << x, y, z >> : x \in 0 .. (ScenarioSize[1] - 1),
                                   y \in 0 .. (ScenarioSize[2] - 1),
                                   z \in 0 .. (ScenarioSize[3] - 1) }

\* The collision field of the scenario's map with occluders on `walls`
ScenarioCollision(walls) ==
    [ t \in ScenarioTiles |-> IF t \in walls THEN WallTile ELSE FreeTile ]

\* The working field the rebuild starts from
ScenarioField == [ t \in ScenarioTiles |-> LightFieldDefault ]

InitWall ==
    /\ qt = << >>
    /\ collision_field = ScenarioCollision({})
    /\ prebaked_lighting = << >>
    /\ light_field = ScenarioField
    /\ exposure_lux = LuxOne
    /\ active_source_ids = {}
    /\ \E p \in ScenarioTiles : dynamic_lights = << DynamicLight(p, LuxHi, White) >>
    /\ wave_edges = << >>
    /\ visited = {}
    /\ last_op = "init"
    /\ rebuilds = 0
    /\ lux_log = << >>
    /\ NbIdle
    /\ UnitIdle
    /\ BoardIdle

\* The dynamic flood of a rebuild, from a fresh working field
WallRebuild ==
    /\ last_op \in { "init", "add_wall" }
    /\ \E r \in { add_dynamic_light_sources(collision_field, ScenarioField,
                                             dynamic_lights) } :
           /\ light_field' = r.lfs
           /\ visited' = r.visited
           /\ lux_log' = Append(lux_log, [ t \in ScenarioTiles |-> r.lfs[t].lux ])
    /\ last_op' = "add_dynamic_light_sources"
    /\ rebuilds' = rebuilds + 1
    /\ UNCHANGED << qt, collision_field, prebaked_lighting, exposure_lux,
                    active_source_ids, dynamic_lights, wave_edges, nbvars, unitvars, boardvars >>

\* A see_through=false tile appears on a tile other than the source's
AddWall ==
    /\ last_op = "add_dynamic_light_sources"
    /\ rebuilds = 1
    /\ \E w \in ScenarioTiles \ { dynamic_lights[1].pos } :
           collision_field' = ScenarioCollision({ w })
    /\ last_op' = "add_wall"
    /\ UNCHANGED << qt, prebaked_lighting, light_field, exposure_lux, active_source_ids,
                    dynamic_lights, wave_edges, visited, rebuilds, lux_log, nbvars, unitvars,
                    boardvars >>

NextWall == WallRebuild \/ AddWall

SpecWall == InitWall /\ [][NextWall]_vars

(***************************************************************************)
(* SpecLight: the lighting rebuild on a map with one prebaked lamp, one    *)
(* movable lamp and one door.                                              *)
(*                                                                         *)
(* The map is split by the column x = 1: the door stands on one of its     *)
(* tiles, occluders on any of the others.  The prebaked lamp stands at     *)
(* StaticLampPos, left of the column.                                      *)
(***************************************************************************)
StaticLampPos == << 0, 1, 0 >>
StaticLampId == 1
DoorColumn == { t \in Tiles : t[1] = 1 }

\* Indices of the entities in the query
LampIx == 1
StaticIx == 2
DoorIx == 3

Lamp(pos, lumens, on) ==
    [ pos |-> pos, class |-> "Light", state |-> IF on THEN "On" ELSE "Off",
      emits_light |-> on, lumens |-> lumens, color |-> Red ]

Door(pos, open) ==
    [ pos |-> pos, class |-> "Door", state |-> IF open THEN "Open" ELSE "Closed",
      emits_light |-> FALSE, lumens |-> 0, color |-> White ]

\* The static bake (spec 4.3): a flood from the light-emitting tile through
\* 4-connected see_through tiles with falloff 0.75 and threshold 0.001; every
\* tile reached records the source id, and a reached tile next to an occluder
\* is a wave edge.
Bake(cf, pos, id, lumens, color) ==
    LET r == add_dynamic_light_sources(cf, FreshField, << DynamicLight(pos, lumens, color) >>)
    IN  [ t \in Tiles |->
            IF t \in r.visited
            THEN [ source_id |-> {id}, lux |-> r.lfs[t].lux, color |-> r.lfs[t].color,
                   is_wave_edge |-> \E n \in Neighbours4(t) : ~cf[n].see_through ]
            ELSE [ source_id |-> {}, lux |-> 0, color |-> White,
                   is_wave_edge |-> FALSE ] ]

\* The collision field entry of the door's tile
DoorTile(open) == IF open THEN FreeTile ELSE WallTile

InitLight ==
    /\ \E door \in DoorColumn, walls \in SUBSET DoorColumn, p \in Tiles,
          l \in { LuxHi, LuxLo } :
          /\ door \notin walls
          /\ qt = << Lamp(p, l, TRUE), Lamp(StaticLampPos, LuxHi, TRUE),
                     Door(door, FALSE) >>
          /\ collision_field = CollisionOf(walls \cup {door})
          /\ prebaked_lighting =
                Bake(CollisionOf(walls \cup {door}), StaticLampPos, StaticLampId,
                     LuxHi, White)
    /\ light_field = FreshField
    /\ exposure_lux = LuxOne
    /\ active_source_ids = {}
    /\ dynamic_lights = << >>
    /\ wave_edges = << >>
    /\ visited = {}
    /\ last_op = "init"
    /\ rebuilds = 0
    /\ lux_log = << >>
    /\ NbIdle
    /\ UnitIdle
    /\ BoardIdle

\* The lighting rebuild (spec 4.4): the functions of unlight/src/utils.rs in
\* the order their signatures fix (add_dynamic_light_sources creates the
\* visited array that propagate_from_wave_edges continues).
lighting_rebuild_result(pre, cf, q) ==
    LET ident == identify_active_light_sources(pre, q)
        baked == apply_prebaked_contributions(ident.active_source_ids, pre, FreshField)
        dyn == add_dynamic_light_sources(cf, baked, ident.dynamic_lights)
        door_states == collect_door_states(q)
        edges == find_wave_edge_tiles(pre, ident.active_source_ids, door_states)
        wave == propagate_from_wave_edges(cf, dyn.lfs, dyn.visited, edges)
        fin == update_exposure_and_stats(wave.lfs)
    IN  [ active_source_ids |-> ident.active_source_ids,
          dynamic_lights |-> ident.dynamic_lights,
          wave_edges |-> edges,
          dyn_visited |-> dyn.visited,
          dyn_lfs |-> dyn.lfs,
          visited |-> wave.visited,
          light_field |-> fin.light_field,
          exposure_lux |-> fin.exposure_lux ]

MaxRebuildsInARow == 2

\* The rebuild's writes to BoardData, and its locals as it leaves them
LightingRebuildStep(r) ==
    /\ light_field' = r.light_field
    /\ exposure_lux' = r.exposure_lux
    /\ active_source_ids' = r.active_source_ids
    /\ dynamic_lights' = r.dynamic_lights
    /\ wave_edges' = r.wave_edges
    /\ visited' = r.visited
    /\ last_op' = "lighting_rebuild"

lighting_rebuild ==
    /\ rebuilds < MaxRebuildsInARow
    /\ \E r \in { lighting_rebuild_result(prebaked_lighting, collision_field, qt) } :
           LightingRebuildStep(r)
    /\ rebuilds' = rebuilds + 1
    /\ UNCHANGED << qt, collision_field, prebaked_lighting, lux_log, nbvars, unitvars, boardvars >>

\* A light switch: the lamp with index i goes on or off.
ToggleLight(i) ==
    /\ qt[i].class = "Light"
    /\ qt' = [ qt EXCEPT ![i].emits_light = ~@,
                         ![i].state = IF qt[i].emits_light THEN "Off" ELSE "On" ]
    /\ last_op' = "toggle_light"
    /\ rebuilds' = 0
    /\ UNCHANGED << collision_field, prebaked_lighting, light_field, exposure_lux,
                    active_source_ids, dynamic_lights, wave_edges, visited, lux_log,
                    nbvars, unitvars, boardvars >>

DoorIsOpen == qt[DoorIx].state = "Open"

\* The door opens or closes, and the collision field follows its tile.
DoorStep ==
    /\ qt[DoorIx].class = "Door"
    /\ qt' = [ qt EXCEPT ![DoorIx].state = IF DoorIsOpen THEN "Closed" ELSE "Open" ]
    /\ collision_field' =
          [ collision_field EXCEPT ![qt[DoorIx].pos] = DoorTile(~DoorIsOpen) ]
    /\ last_op' = "toggle_door"
    /\ UNCHANGED << prebaked_lighting, light_field, exposure_lux,
                    active_source_ids, dynamic_lights, wave_edges, visited, nbvars, unitvars, boardvars >>

ToggleDoor ==
    /\ DoorStep
    /\ rebuilds' = 0
    /\ UNCHANGED lux_log

NextLight ==
    \/ lighting_rebuild
    \/ ToggleLight(LampIx)
    \/ ToggleLight(StaticIx)
    \/ ToggleDoor

SpecLight == InitLight /\ [][NextLight]_vars

(***************************************************************************)
(* SpecLaw: one flood from one origin, as a dynamic source                 *)
(* (add_dynamic_light_sources, budget 30) or as a resumed wave edge        *)
(* (propagate_from_wave_edges, budget 20, on a fresh visited array), on a  *)
(* corridor longer than both budgets and on the 5x5 map with occluders in  *)
(* one column.                                                             *)
(***************************************************************************)
CorridorLen == 33

CorridorTiles == { << x, 0, 0 >> : x \in 0 .. (CorridorLen - 1) }

\* Occluders of the 5x5 map: any part of column 1 below its last row
WallLine == { << 1, y, 0 >> : y \in 0 .. (ScenarioSize[2] - 2) }

LawMaps ==
    { [ t \in CorridorTiles |-> IF t \in w THEN WallTile ELSE FreeTile ] :
        w \in { {} } \cup { { t } : t \in CorridorTiles } }
    \cup { ScenarioCollision(w) : w \in SUBSET WallLine }

\* A wave edge as find_wave_edge_tiles lists it
WaveEdge(pos, lux, color) ==
    [ pos |-> pos, source_id |-> StaticLampId, lux |-> lux, color |-> color,
      distance |-> WaveEdgeDistance ]

InitLaw ==
    /\ qt = << >>
    /\ collision_field \in LawMaps
    /\ prebaked_lighting = << >>
    /\ light_field = [ t \in DOMAIN collision_field |-> LightFieldDefault ]
    /\ exposure_lux = LuxOne
    /\ active_source_ids = {}
    /\ \E p \in DOMAIN collision_field, l \in { LuxHi, LuxLo } :
          /\ dynamic_lights = << DynamicLight(p, l, White) >>
          /\ wave_edges = << WaveEdge(p, l, White) >>
    /\ visited = {}
    /\ last_op = "init"
    /\ rebuilds = 0
    /\ lux_log = << >>
    /\ NbIdle
    /\ UnitIdle
    /\ BoardIdle

LawDynamic ==
    /\ last_op = "init"
    /\ \E r \in { add_dynamic_light_sources(collision_field, light_field,
                                             dynamic_lights) } :
           /\ light_field' = r.lfs
           /\ visited' = r.visited
    /\ last_op' = "add_dynamic_light_sources"
    /\ UNCHANGED << qt, collision_field, prebaked_lighting, exposure_lux,
                    active_source_ids, dynamic_lights, wave_edges, rebuilds, lux_log,
                    nbvars, unitvars, boardvars >>

LawWave ==
    /\ last_op = "init"
    /\ \E r \in { propagate_from_wave_edges(collision_field, light_field, {},
                                             wave_edges) } :
           /\ light_field' = r.lfs
           /\ visited' = r.visited
    /\ last_op' = "propagate_from_wave_edges"
    /\ UNCHANGED << qt, collision_field, prebaked_lighting, exposure_lux,
                    active_source_ids, dynamic_lights, wave_edges, rebuilds, lux_log,
                    nbvars, unitvars, boardvars >>

NextLaw == LawDynamic \/ LawWave

SpecLaw == InitLaw /\ [][NextLaw]_vars

(***************************************************************************)
(* SpecSteps: the two flood loops of a rebuild, one iteration of the       *)
(* `while let` at a time.  add_dynamic_light_sources runs first and hands  *)
(* its visited array to propagate_from_wave_edges.  bfs.enq counts, tile   *)
(* by tile, the push_back calls made for a neighbour.                      *)
(***************************************************************************)
\* Two opposite corners of the map
StepOrigins == { << 0, 0, 0 >>, << map_size[1] - 1, map_size[2] - 1, 0 >> }

StepLights ==
    { << >> }
    \cup { << DynamicLight(p, l, Red) >> : p \in StepOrigins, l \in { LuxHi, LuxLo } }
    \cup { << DynamicLight(p, LuxHi, Red), DynamicLight(q, LuxHi, Blue) >> :
             p \in StepOrigins, q \in StepOrigins }

StepEdges ==
    { << >> }
    \cup { << WaveEdge(p, l, White) >> : p \in StepOrigins, l \in { LuxHi, LuxLo } }
    \cup { << WaveEdge(p, LuxHi, White), WaveEdge(q, LuxHi, White) >> :
             p \in StepOrigins, q \in StepOrigins }

InitSteps ==
    /\ qt = << >>
    /\ \E w \in { {} } \cup { { d } : d \in DoorColumn } :
          collision_field = CollisionOf(w)
    /\ prebaked_lighting = NoPrebake
    /\ light_field = FreshField
    /\ exposure_lux = LuxOne
    /\ active_source_ids = {}
    /\ dynamic_lights \in StepLights
    /\ wave_edges \in StepEdges
    /\ visited = {}
    /\ last_op = "init"
    /\ rebuilds = 0
    /\ lux_log = << >>
    /\ bfs = [ phase |-> "dynamic",
               st |-> dynamic_start(collision_field, light_field, dynamic_lights),
               enq |-> [ t \in Tiles |-> 0 ] ]
    /\ dir = << >>
    /\ flask = << >>
    /\ summary = << >>
    /\ ghost = << >>
    /\ NbIdle
    /\ BoardIdle

\* The push_back calls of one iteration, added to the count of their tiles
Enqueued(enq, before, after) ==
    [ t \in DOMAIN enq |->
        enq[t] + Cardinality({ i \in Len(before.queue) .. Len(after.queue) :
                                 after.queue[i].pos = t }) ]

StepFrame ==
    UNCHANGED << qt, collision_field, prebaked_lighting, exposure_lux, active_source_ids,
                 dynamic_lights, wave_edges, rebuilds, lux_log, nbvars, boardvars,
                 dir, flask, summary, ghost >>

DynamicStep ==
    /\ bfs.phase = "dynamic"
    /\ bfs.st.queue # << >>
    /\ \E r \in { dynamic_pop(bfs.st, collision_field) } :
          bfs' = [ bfs EXCEPT !.st = r, !.enq = Enqueued(bfs.enq, bfs.st, r) ]
    /\ last_op' = "dynamic_pop"
    /\ UNCHANGED << light_field, visited >>
    /\ StepFrame

\* pop_front() returns None: add_dynamic_light_sources returns its visited
\* array and propagate_from_wave_edges fills its queue
DynamicReturn ==
    /\ bfs.phase = "dynamic"
    /\ bfs.st.queue = << >>
    /\ light_field' = bfs.st.lfs
    /\ visited' = bfs.st.visited
    /\ bfs' = [ bfs EXCEPT !.phase = "wave",
                           !.st = wave_start(collision_field, bfs.st.lfs,
                                             bfs.st.visited, wave_edges) ]
    /\ last_op' = "add_dynamic_light_sources"
    /\ StepFrame

WaveStep ==
    /\ bfs.phase = "wave"
    /\ bfs.st.queue # << >>
    /\ \E r \in { wave_pop(bfs.st, collision_field) } :
          bfs' = [ bfs EXCEPT !.st = r, !.enq = Enqueued(bfs.enq, bfs.st, r) ]
    /\ last_op' = "wave_pop"
    /\ UNCHANGED << light_field, visited >>
    /\ StepFrame

WaveReturn ==
    /\ bfs.phase = "wave"
    /\ bfs.st.queue = << >>
    /\ light_field' = bfs.st.lfs
    /\ visited' = bfs.st.visited
    /\ bfs' = [ bfs EXCEPT !.phase = "done" ]
    /\ last_op' = "propagate_from_wave_edges"
    /\ StepFrame

NextSteps == DynamicStep \/ DynamicReturn \/ WaveStep \/ WaveReturn

\* The loops are plain sequential code: a step that can be taken is taken
SpecSteps == InitSteps /\ [][NextSteps]_vars /\ WF_vars(NextSteps)

(***************************************************************************)
(* SpecDoor: the door sequence.  From a board with the door closed:        *)
(* rebuild, open the door and rebuild, close the door and rebuild.  Each   *)
(* rebuild logs its lux field, the wave edges it resumed from and the      *)
(* tiles the resumed flood lit.                                            *)
(***************************************************************************)
DoorRuns == 3

InitDoor ==
    /\ \E door \in DoorColumn, walls \in SUBSET DoorColumn, p \in Tiles,
          l \in { LuxHi, LuxLo }, lamp_on \in BOOLEAN, static_on \in BOOLEAN :
          /\ door \notin walls
          /\ qt = << Lamp(p, l, lamp_on), Lamp(StaticLampPos, LuxHi, static_on),
                     Door(door, FALSE) >>
          /\ collision_field = CollisionOf(walls \cup {door})
          /\ prebaked_lighting =
                Bake(CollisionOf(walls \cup {door}), StaticLampPos, StaticLampId,
                     LuxHi, White)
    /\ light_field = FreshField
    /\ exposure_lux = LuxOne
    /\ active_source_ids = {}
    /\ dynamic_lights = << >>
    /\ wave_edges = << >>
    /\ visited = {}
    /\ last_op = "init"
    /\ rebuilds = 0
    /\ lux_log = << >>
    /\ NbIdle
    /\ UnitIdle
    /\ BoardIdle

DoorRebuild ==
    /\ Len(lux_log) < DoorRuns
    /\ DoorIsOpen <=> Len(lux_log) = 1
    /\ \E r \in { lighting_rebuild_result(prebaked_lighting, collision_field, qt) } :
          /\ LightingRebuildStep(r)
          /\ lux_log' = Append(lux_log,
                [ lux |-> [ t \in Tiles |-> r.light_field[t].lux ],
                  edges |-> { r.wave_edges[i].pos : i \in 1 .. Len(r.wave_edges) },
                  resumed |-> r.visited \ r.dyn_visited ])
    /\ UNCHANGED << qt, collision_field, prebaked_lighting, rebuilds, nbvars, unitvars, boardvars >>

DoorToggle ==
    /\ last_op = "lighting_rebuild"
    /\ Len(lux_log) < DoorRuns
    /\ DoorStep
    /\ UNCHANGED << rebuilds, lux_log >>

NextDoor == DoorRebuild \/ DoorToggle

SpecDoor == InitDoor /\ [][NextDoor]_vars

(***************************************************************************)
(* SpecBounds: the lighting rebuild with entities that may stand outside   *)
(* the map.  The movable lamp stands on a tile or one step outside the map *)
(* on some axis; the door stands in the column x = 1 or outside, left of   *)
(* the map.  A rebuild whose array lookup is out of range panics, and the  *)
(* program stops there.                                                    *)
(***************************************************************************)
OutsidePositions ==
    { << -1, 0, 0 >>, << map_size[1], 0, 0 >>, << 0, -1, 0 >>, << 0, map_size[2], 0 >>,
      << 0, 0, map_size[3] >> }

OutsideDoors == { << -1, 0, 0 >>, << -1, 1, 0 >> }

InitBounds ==
    /\ \E door \in DoorColumn \cup OutsideDoors, walls \in SUBSET DoorColumn,
          p \in Tiles \cup OutsidePositions, lamp_on \in BOOLEAN :
          /\ door \notin walls
          /\ door \in DoorColumn => walls = {}
          /\ qt = << Lamp(p, LuxHi, lamp_on), Lamp(StaticLampPos, LuxHi, TRUE),
                     Door(door, FALSE) >>
          /\ collision_field = CollisionOf((walls \cup {door}) \cap Tiles)
          /\ prebaked_lighting =
                Bake(CollisionOf((walls \cup {door}) \cap Tiles), StaticLampPos,
                     StaticLampId, LuxHi, White)
    /\ light_field = FreshField
    /\ exposure_lux = LuxOne
    /\ active_source_ids = {}
    /\ dynamic_lights = << >>
    /\ wave_edges = << >>
    /\ visited = {}
    /\ last_op = "init"
    /\ rebuilds = 0
    /\ lux_log = << >>
    /\ NbIdle
    /\ UnitIdle
    /\ BoardIdle

Panicked == last_op = "panicked"

\* The lighting rebuild; the panic of identify_active_light_sources leaves
\* BoardData as it was
BoundsRebuild ==
    /\ ~Panicked
    /\ rebuilds < MaxRebuildsInARow
    /\ IF identify_panics(prebaked_lighting, qt)
       THEN /\ last_op' = "panicked"
            /\ UNCHANGED << light_field, exposure_lux, active_source_ids,
                            dynamic_lights, wave_edges, visited >>
       ELSE \E r \in { lighting_rebuild_result(prebaked_lighting, collision_field, qt) } :
               LightingRebuildStep(r)
    /\ rebuilds' = rebuilds + 1
    /\ UNCHANGED << qt, collision_field, prebaked_lighting, lux_log, nbvars, unitvars, boardvars >>

\* The door opens or closes; a door outside the map has no tile in the
\* collision field
BoundsDoor ==
    /\ ~Panicked
    /\ qt' = [ qt EXCEPT ![DoorIx].state = IF DoorIsOpen THEN "Closed" ELSE "Open" ]
    /\ collision_field' =
          [ t \in Tiles |-> IF t = qt[DoorIx].pos THEN DoorTile(~DoorIsOpen)
                            ELSE collision_field[t] ]
    /\ last_op' = "toggle_door"
    /\ rebuilds' = 0
    /\ UNCHANGED << prebaked_lighting, light_field, exposure_lux, active_source_ids,
                    dynamic_lights, wave_edges, visited, lux_log, nbvars, unitvars, boardvars >>

\* The movable lamp is switched on or off
BoundsLight ==
    /\ ~Panicked
    /\ ToggleLight(LampIx)

NextBounds == BoundsRebuild \/ BoundsLight \/ BoundsDoor

SpecBounds == InitBounds /\ [][NextBounds]_vars

(***************************************************************************)
(* SpecPrebake: the first steps of the lighting rebuild, one at a time, on *)
(* a board with one prebaked lamp and two doors in the column x = 1.  The  *)
(* lamp is on or off and gives 10, 0.002 or 0.001 lux; each door is open   *)
(* or closed; the prebake is the baker's or one whose wave edges of the    *)
(* row y = 0 have lost their source id.                                    *)
(***************************************************************************)
LuxMin == LuxEps            \* a lamp of 0.001 lux

\* A prebake whose wave edges of the row y = 0 reference no source
Unsourced(pre) ==
    [ t \in Tiles |->
        IF pre[t].is_wave_edge /\ t[2] = 0
        THEN [ pre[t] EXCEPT !.source_id = {} ]
        ELSE pre[t] ]

InitPrebake ==
    /\ \E d1 \in DoorColumn, d2 \in DoorColumn, walls \in SUBSET DoorColumn,
          o1 \in BOOLEAN, o2 \in BOOLEAN, on \in BOOLEAN,
          l \in { LuxHi, LuxLo, LuxMin }, malformed \in BOOLEAN :
          /\ d1 # d2
          /\ walls \cap { d1, d2 } = {}
          /\ qt = << [ Lamp(StaticLampPos, l, on) EXCEPT !.color = Blue ],
                     Door(d1, o1), Door(d2, o2) >>
          /\ collision_field =
                [ t \in Tiles |->
                    IF t \in walls THEN WallTile
                    ELSE IF t = d1 THEN DoorTile(o1)
                    ELSE IF t = d2 THEN DoorTile(o2)
                    ELSE FreeTile ]
          /\ prebaked_lighting =
                LET pre == Bake(CollisionOf(walls \cup { d1, d2 }), StaticLampPos,
                                StaticLampId, l, Blue)
                IN  IF malformed THEN Unsourced(pre) ELSE pre
    /\ light_field = FreshField
    /\ exposure_lux = LuxOne
    /\ active_source_ids = {}
    /\ dynamic_lights = << >>
    /\ wave_edges = << >>
    /\ visited = {}
    /\ last_op = "init"
    /\ rebuilds = 0
    /\ lux_log = << >>
    /\ NbIdle
    /\ UnitIdle
    /\ BoardIdle

\* Steps 1 and 2 of the rebuild: the active sources, then their baked light
\* copied into a fresh working field
ApplyPrebaked ==
    /\ last_op = "init"
    /\ \E ident \in { identify_active_light_sources(prebaked_lighting, qt) } :
          /\ active_source_ids' = ident.active_source_ids
          /\ dynamic_lights' = ident.dynamic_lights
          /\ light_field' = apply_prebaked_contributions(ident.active_source_ids,
                                                         prebaked_lighting, FreshField)
    /\ last_op' = "apply_prebaked_contributions"
    /\ UNCHANGED << qt, collision_field, prebaked_lighting, exposure_lux, wave_edges,
                    visited, rebuilds, lux_log, nbvars, unitvars, boardvars >>

\* Steps 1, 3 and the selection of step 4: the active sources, the door
\* states, then the wave edges to resume from
FindWaveEdges ==
    /\ last_op = "init"
    /\ \E ident \in { identify_active_light_sources(prebaked_lighting, qt) } :
          /\ active_source_ids' = ident.active_source_ids
          /\ dynamic_lights' = ident.dynamic_lights
          /\ wave_edges' = find_wave_edge_tiles(prebaked_lighting,
                                                ident.active_source_ids,
                                                collect_door_states(qt))
    /\ last_op' = "find_wave_edge_tiles"
    /\ UNCHANGED << qt, collision_field, prebaked_lighting, light_field, exposure_lux,
                    visited, rebuilds, lux_log, nbvars, unitvars, boardvars >>

NextPrebake == ApplyPrebaked \/ FindWaveEdges

SpecPrebake == InitPrebake /\ [][NextPrebake]_vars

(***************************************************************************)
(* uncore/src/components/board/boardposition.rs                            *)
(***************************************************************************)
Max(a, b) == IF a >= b THEN a ELSE b
Min(a, b) == IF a <= b THEN a ELSE b

\* usize::saturating_sub(1)
saturating_sub1(n) == IF n >= 1 THEN n - 1 ELSE 0

\* A constructor that does not clamp the window to `from`
NeighborsIterator_new_unclamped(center, max_distance, from, to) ==
    LET min_x == center[1] - max_distance
        min_y == center[2] - max_distance
        max_x == Min(center[1] + max_distance, to[1])
        max_y == Min(center[2] + max_distance, to[2])
    IN  [ current_x |-> min_x, current_y |-> min_y, min_x |-> min_x,
          max_x |-> max_x, max_y |-> max_y, z |-> center[3] ]

\* NeighborsIterator::new
NeighborsIterator_new(center, max_distance, from, to) ==
    LET min_x == Max(center[1] - max_distance, from[1])
        min_y == Max(center[2] - max_distance, from[2])
        max_x == Min(center[1] + max_distance, to[1])
        max_y == Min(center[2] + max_distance, to[2])
    IN  [ current_x |-> min_x, current_y |-> min_y, min_x |-> min_x,
          max_x |-> max_x, max_y |-> max_y, z |-> center[3] ]

\* BoardPosition::iter_xy_neighbors
iter_xy_neighbors(center, dist, size) ==
    NeighborsIterator_new(center, dist, << 0, 0 >>,
                          << saturating_sub1(size[1]), saturating_sub1(size[2]) >>)

\* <NeighborsIterator as Iterator>::next: the item (a sequence of at most
\* one position) and the iterator after the call
NeighborsIterator_next(it) ==
    IF it.current_y > it.max_y
    THEN [ item |-> << >>, it |-> it ]
    ELSE [ item |-> << << it.current_x, it.current_y, it.z >> >>,
           it |-> IF it.current_x + 1 > it.max_x
                  THEN [ it EXCEPT !.current_x = it.min_x, !.current_y = it.current_y + 1 ]
                  ELSE [ it EXCEPT !.current_x = it.current_x + 1 ] ]

\* BoardPosition::_xy_neighbors_buf: the square of side 2*dist+1, x outermost
xy_neighbors_buf(pos, dist) ==
    LET w == 2 * dist + 1
    IN  [ k \in 1 .. w * w |->
            << pos[1] - dist + ((k - 1) \div w), pos[2] - dist + ((k - 1) % w), pos[3] >> ]

\* i64::clamp
clamp(v, lo, hi) == IF v < lo THEN lo ELSE IF v > hi THEN hi ELSE v

\* BoardPosition::_xy_neighbors_buf_clamped
xy_neighbors_buf_clamped(pos, dist, min_x, max_x, min_y, max_y) ==
    LET x1 == clamp(pos[1] - dist, min_x, max_x)
        x2 == clamp(pos[1] + dist, min_x, max_x)
        y1 == clamp(pos[2] - dist, min_y, max_y)
        y2 == clamp(pos[2] + dist, min_y, max_y)
        w == y2 - y1 + 1
    IN  [ k \in 1 .. (x2 - x1 + 1) * w |->
            << x1 + ((k - 1) \div w), y1 + ((k - 1) % w), pos[3] >> ]

(***************************************************************************)
(* SpecDir: one call of left(), right(), top() or bottom() on a            *)
(* BoardPosition.  The coordinates are i64; the model gives i64 a width of *)
(* four bits, so that a receiver on the border of the type can be drawn.   *)
(***************************************************************************)
I64_MAX == 7
I64_MIN == -I64_MAX - 1
I64 == I64_MIN .. I64_MAX

wrapping(v) == ((v - I64_MIN) % (2 * (I64_MAX + 1))) + I64_MIN

\* `x + d` on i64.  An overflow panics in a build with overflow checks and
\* wraps in a build without them; both outcomes are kept.
i64_add(x, d) ==
    IF x + d \in I64
    THEN { [ panicked |-> FALSE, v |-> x + d ] }
    ELSE { [ panicked |-> TRUE, v |-> x ], [ panicked |-> FALSE, v |-> wrapping(x + d) ] }

\* Variant of left: x - 1 without `.max(0)`
left_unclamped(p) ==
    { [ panicked |-> r.panicked, pos |-> << r.v, p[2], p[3] >> ] : r \in i64_add(p[1], -1) }

left(p) ==
    { [ panicked |-> r.panicked, pos |-> << Max(r.v, 0), p[2], p[3] >> ] :
        r \in i64_add(p[1], -1) }

right(p) ==
    { [ panicked |-> r.panicked, pos |-> << r.v, p[2], p[3] >> ] : r \in i64_add(p[1], 1) }

top(p) ==
    { [ panicked |-> r.panicked, pos |-> << p[1], Max(r.v, 0), p[3] >> ] :
        r \in i64_add(p[2], -1) }

bottom(p) ==
    { [ panicked |-> r.panicked, pos |-> << p[1], r.v, p[3] >> ] : r \in i64_add(p[2], 1) }

InitDir ==
    /\ LightIdle
    /\ BoardIdle
    /\ NbIdle
    /\ bfs = << >>
    /\ flask = << >>
    /\ summary = << >>
    /\ ghost = << >>
    /\ \E x \in I64, y \in I64, z \in { 0, 1 } :
          dir = [ pos |-> << x, y, z >>, helper |-> "none", panicked |-> FALSE,
                  returned |-> << >> ]

\* The helper returns (or the call panics)
DirReturn(helper, r) ==
    /\ dir' = [ dir EXCEPT !.helper = helper, !.panicked = r.panicked,
                           !.returned = IF r.panicked THEN << >> ELSE r.pos ]
    /\ UNCHANGED << lightvars, nbvars, boardvars, bfs, flask, summary, ghost >>

Left ==
    /\ dir.helper = "none"
    /\ \E r \in left(dir.pos) : DirReturn("left", r)

Right ==
    /\ dir.helper = "none"
    /\ \E r \in right(dir.pos) : DirReturn("right", r)

Top ==
    /\ dir.helper = "none"
    /\ \E r \in top(dir.pos) : DirReturn("top", r)

Bottom ==
    /\ dir.helper = "none"
    /\ \E r \in bottom(dir.pos) : DirReturn("bottom", r)

NextDir == Left \/ Right \/ Top \/ Bottom

SpecDir == InitDir /\ [][NextDir]_vars

(***************************************************************************)
(* ungearitems/src/components/repellentflask.rs: RepellentFlask.  An       *)
(* Option is the empty set or a singleton.  update also counts the flasks  *)
(* used in the summary and spawns one Repellent particle per call that     *)
(* leaves liquid in the flask.                                             *)
(***************************************************************************)
MAX_QTY == 400
MaxUsed == 2
GhostTypes == { "BeanSidhe", "Dullahan" }

\* #[derive(Default)]
default_flask == [ liquid_content |-> {}, active |-> FALSE, qty |-> 0 ]

set_trigger(self) ==
    IF self.liquid_content = {} THEN self
    ELSE [ self EXCEPT !.active = TRUE ]

\* An update that lets the quantity run below zero with the flask still on
update_unclamped(self) ==
    IF ~self.active THEN [ flask |-> self, used |-> 0, spawned |-> {} ]
    ELSE LET used == IF self.qty = MAX_QTY THEN 1 ELSE 0
             s1 == [ self EXCEPT !.qty = self.qty - 1 ]
         IN  IF s1.liquid_content = {}
             THEN [ flask |-> [ s1 EXCEPT !.qty = 0, !.active = FALSE ],
                    used |-> used, spawned |-> {} ]
             ELSE [ flask |-> s1, used |-> used, spawned |-> s1.liquid_content ]

\* The flask after update, the increment of summary.repellent_used_amt and
\* the liquid of the Repellent it spawned
update(self) ==
    IF ~self.active THEN [ flask |-> self, used |-> 0, spawned |-> {} ]
    ELSE LET used == IF self.qty = MAX_QTY THEN 1 ELSE 0
             s1 == [ self EXCEPT !.qty = self.qty - 1 ]
         IN  IF s1.qty <= 0
             THEN [ flask |-> [ s1 EXCEPT !.qty = 0, !.active = FALSE,
                                          !.liquid_content = {} ],
                    used |-> used, spawned |-> {} ]
             ELSE IF s1.liquid_content = {}
             THEN [ flask |-> [ s1 EXCEPT !.qty = 0, !.active = FALSE ],
                    used |-> used, spawned |-> {} ]
             ELSE [ flask |-> s1, used |-> used, spawned |-> s1.liquid_content ]

do_fill_liquid(self, ghost_type) ==
    [ self EXCEPT !.liquid_content = { ghost_type }, !.active = FALSE, !.qty = MAX_QTY ]

\* run counts the updates since set_trigger on a full flask, -1 after any
\* other call; last is the call just made and before the flask it was made on
InitFlask ==
    /\ LightIdle
    /\ BoardIdle
    /\ NbIdle
    /\ bfs = << >>
    /\ dir = << >>
    /\ summary = << >>
    /\ ghost = << >>
    /\ flask = [ self |-> default_flask, repellent_used_amt |-> 0, spawned |-> {},
                 run |-> -1, last |-> "new", before |-> default_flask ]

FlaskFrame == UNCHANGED << lightvars, nbvars, boardvars, bfs, dir, summary, ghost >>

SetTrigger ==
    /\ flask # << >>
    /\ flask' = [ flask EXCEPT !.self = set_trigger(flask.self), !.spawned = {},
                               !.run = IF /\ flask.self.liquid_content # {}
                                          /\ ~flask.self.active
                                          /\ flask.self.qty = MAX_QTY
                                       THEN 0 ELSE -1,
                               !.last = "set_trigger", !.before = flask.self ]
    /\ FlaskFrame

Update ==
    /\ flask # << >>
    /\ \E r \in { update(flask.self) } :
          /\ flask.repellent_used_amt + r.used <= MaxUsed
          /\ flask' = [ flask EXCEPT !.self = r.flask,
                                     !.repellent_used_amt = @ + r.used,
                                     !.spawned = r.spawned,
                                     !.run = IF flask.run \in 0 .. (MAX_QTY - 1)
                                             THEN flask.run + 1 ELSE -1,
                                     !.last = "update", !.before = flask.self ]
    /\ FlaskFrame

DoFillLiquid ==
    /\ flask # << >>
    /\ \E ghost_type \in GhostTypes :
          flask' = [ flask EXCEPT !.self = do_fill_liquid(flask.self, ghost_type),
                                  !.spawned = {}, !.run = -1,
                                  !.last = "do_fill_liquid", !.before = flask.self ]
    /\ FlaskFrame

NextFlask == SetTrigger \/ Update \/ DoFillLiquid

SpecFlask == InitFlask /\ [][NextFlask]_vars

(***************************************************************************)
(* ungame/src/summary.rs: update_score, the system that moves the score    *)
(* shown on the summary screen towards calculate_score().  The inputs of   *)
(* calculate_score are not written while the summary is shown, so its      *)
(* value is a field of the state; the clamp keeps it in 0 ..= 1000000.     *)
(***************************************************************************)
MaxScore == 1000000
ScoreDivisor == 200
MinDelta == 10
Scores == { 0, 7, 10, 11, 2500, MaxScore }

\* i64 division truncates towards zero
i64_div(a, b) == IF a >= 0 THEN a \div b ELSE -((-a) \div b)

\* score.clamp(0.0, 1000000.0) as i64
calculate_score(sd) == Max(0, Min(sd.score, MaxScore))

\* update_score without the .min(max_delta)
update_score_unbounded(sd) ==
    IF sd.app_state # "Summary" THEN sd
    ELSE LET desired_score == calculate_score(sd)
             max_delta == desired_score - sd.final_score
             delta == Max(i64_div(max_delta, ScoreDivisor), MinDelta)
         IN  [ sd EXCEPT !.final_score = sd.final_score + delta ]

update_score(sd) ==
    IF sd.app_state # "Summary" THEN sd
    ELSE LET desired_score == calculate_score(sd)
             max_delta == desired_score - sd.final_score
             delta == Min(Max(i64_div(max_delta, ScoreDivisor), MinDelta), max_delta)
         IN  [ sd EXCEPT !.final_score = sd.final_score + delta ]

\* The summary screen opens with a score to show and the final_score left by
\* the run before
InitSummary ==
    /\ LightIdle
    /\ BoardIdle
    /\ NbIdle
    /\ bfs = << >>
    /\ dir = << >>
    /\ flask = << >>
    /\ ghost = << >>
    /\ \E s \in Scores, f \in Scores :
          summary = [ app_state |-> "Summary", score |-> s, final_score |-> f ]

SummaryFrame == UNCHANGED << lightvars, nbvars, boardvars, bfs, dir, flask, ghost >>

UpdateScore ==
    /\ summary # << >>
    /\ summary' = update_score(summary)
    /\ SummaryFrame

\* keyboard (lines 114-128): Escape or Enter leaves the summary
Keyboard ==
    /\ summary # << >>
    /\ summary.app_state = "Summary"
    /\ summary' = [ summary EXCEPT !.app_state = "MainMenu" ]
    /\ SummaryFrame

NextSummary == UpdateScore \/ Keyboard

SpecSummary == InitSummary /\ [][NextSummary]_vars /\ WF_vars(UpdateScore)

(***************************************************************************)
(* src/ghost.rs: ghost_movement and ghost_enrage, for one ghost.  Times    *)
(* and the hunting value are in 1/20 second, the warp in halves, and a    *)
(* frame takes half a second.  What the code reads from the players, the   *)
(* room map and the random generator is an input of the step: the distance *)
(* of the ghost to its target as a class, the three dice, whether a player *)
(* is alive, whether the chosen tile is a room tile free for the ghost,    *)
(* and the rage that the players have driven the ghost to.  The ghost's    *)
(* position enters through the distance class only.  hunt_age is           *)
(* elapsed_seconds - hunt_time_secs at the ghost's last turn, cut off      *)
(* above one second.                                                       *)
(***************************************************************************)
HuntingOne == 20
WarpOne == 2
WarpBoost == 40
WarpDampOne == 1000
RageLimit == 120
BonusOne == 10000
HuntBonus == 10000
MaxHunting == 380
FrameTimes == { 10 }
DistClasses == { "at", "close", "mid", "far" }
RageLevels == { 0, 126 }

\* The values of an input that the code reads only when used is true
Drawn(used) == IF used THEN BOOLEAN ELSE { FALSE }

\* GhostSprite::new (lines 52-71)
new_ghost ==
    [ target_point |-> {}, hunting |-> 0, hunt_target |-> FALSE, hunt_age |-> HuntingOne + 1,
      warp |-> 0, panicked |-> FALSE, despawned |-> FALSE ]

\* 1.2_f32.powf(dt) in 1/1000, for a whole dt
RECURSIVE powf12(_)
powf12(dt) == IF dt = 0 THEN WarpDampOne ELSE (powf12(dt - 1) * 12) \div 10

\* lines 100-110: the warp of a ghost that has a target.  dt is
\* delta_seconds * 60: the warp loses dt * 0.5 and, within 5 of the target,
\* is divided by 1.2^dt
warp_step(g, delta, dist, warp_roll) ==
    LET dt == (delta * 60) \div HuntingOne
        w1 == IF warp_roll /\ dist \in { "mid", "far" } /\ g.warp * 10 < WarpOne
              THEN g.warp + WarpBoost * WarpOne ELSE g.warp
        w2 == w1 - (dt * WarpOne) \div 2
        w3 == IF w2 < 0 THEN 0 ELSE w2
    IN  IF dist # "far" THEN (w3 * WarpDampOne) \div powf12(dt) ELSE w3

\* The hunt branch without the reset at hunting < 0.0
hunt_branch_unclamped(g, delta) ==
    LET h == IF g.hunt_age > HuntingOne THEN g.hunting - delta ELSE g.hunting
    IN  [ g |-> [ g EXCEPT !.hunting = h ], finalize |-> FALSE, dropped |-> h < 0 ]

\* lines 120-135: a hunting ghost uses up its hunting time after the first
\* second of the hunt; the hunt ends when the time has run out
hunt_branch(g, delta) ==
    LET h == IF g.hunt_age > HuntingOne THEN g.hunting - delta ELSE g.hunting
    IN  IF h < 0
        THEN [ g |-> [ g EXCEPT !.hunting = 0, !.hunt_target = FALSE ],
               finalize |-> TRUE, dropped |-> TRUE ]
        ELSE [ g |-> [ g EXCEPT !.hunting = h ], finalize |-> FALSE, dropped |-> FALSE ]

\* lines 98-146: the ghost moves towards its target
approach(g, delta, dist, warp_roll) ==
    IF g.target_point = {} THEN [ g |-> g, dropped |-> FALSE ]
    ELSE LET g1 == [ g EXCEPT !.warp = warp_step(g, delta, dist, warp_roll) ]
             r == IF g1.hunt_target THEN hunt_branch(g1, delta)
                  ELSE [ g |-> g1, finalize |-> FALSE, dropped |-> FALSE ]
             finalize == r.finalize \/ dist = "at"
         IN  [ g |-> IF finalize THEN [ r.g EXCEPT !.target_point = {} ] ELSE r.g,
               dropped |-> r.dropped ]

\* line 158: gen_range(0.0..sqrt(hunting * 10 + ghbonus) * 10) panics on an
\* empty range and can exceed 10 when hunting * 10 + ghbonus > 1
hunt_weight(g) ==
    g.hunting * 10 * BonusOne + (IF g.hunt_target THEN HuntBonus * BonusOne ELSE 1) * HuntingOne

\* lines 147-196: a new target for a ghost without one, or for a hunting
\* ghost when the die says so
retarget(g, retarget_roll, hunt_roll, players_alive, tile_ok) ==
    IF ~(g.target_point = {} \/ (g.hunt_target /\ retarget_roll)) THEN g
    ELSE IF hunt_weight(g) <= 0 THEN [ g EXCEPT !.panicked = TRUE ]
    ELSE LET hunt == hunt_roll /\ hunt_weight(g) > BonusOne * HuntingOne /\ players_alive
         IN  IF tile_ok
             THEN [ g EXCEPT !.hunt_age = IF hunt /\ ~g.hunt_target THEN 0 ELSE @,
                             !.target_point = { IF hunt THEN "player" ELSE "wander" },
                             !.hunt_target = hunt ]
             ELSE [ g EXCEPT !.hunt_target = FALSE ]

\* lines 197-203: a ghost with more than 100 repellent hits is despawned and
\* has no component left
despawned_ghost == [ new_ghost EXCEPT !.despawned = TRUE ]

\* time.elapsed_seconds() has moved on by the frame's delta since the ghost's
\* turn in the frame before
elapsed(g, delta) == [ g EXCEPT !.hunt_age = Min(@ + delta, HuntingOne + 1) ]

\* One ghost's turn of the loop of ghost_movement (lines 97-204)
ghost_movement(g, delta, dist, warp_roll, retarget_roll, hunt_roll, players_alive, tile_ok, expelled) ==
    LET a == approach(elapsed(g, delta), delta, dist, warp_roll)
        g2 == retarget(a.g, retarget_roll, hunt_roll, players_alive, tile_ok)
    IN  [ g |-> IF expelled /\ ~g2.panicked THEN despawned_ghost ELSE g2,
          dropped |-> a.dropped /\ ~(expelled /\ ~g2.panicked) ]

\* One ghost's turn of the loop of ghost_enrage (lines 221-270), with the
\* rage after the decay and the players' part as an input
ghost_enrage(g, delta, rage) ==
    IF g.hunt_target THEN g
    ELSE LET h1 == g.hunting - delta \div 5
             h2 == IF h1 < 0 THEN 0 ELSE h1
         IN  IF rage > RageLimit
             THEN [ g EXCEPT !.hunting = h2 + (((rage - rage \div 3) * HuntingOne) \div 6
                                               + 5 * HuntingOne) ]
             ELSE [ g EXCEPT !.hunting = h2 ]

\* ran holds the system that has run in the frame when the other has not;
\* both run once a frame, in either order (line 274)
InitGhost ==
    /\ LightIdle
    /\ BoardIdle
    /\ NbIdle
    /\ bfs = << >>
    /\ dir = << >>
    /\ flask = << >>
    /\ summary = << >>
    /\ ghost = [ sprite |-> new_ghost, ran |-> {}, last |-> "new", dropped |-> FALSE,
                 ghosts_unhaunted |-> 0 ]

GhostFrame == UNCHANGED << lightvars, nbvars, boardvars, bfs, dir, flask, summary >>

GhostLive == ghost # << >> /\ ~ghost.sprite.panicked /\ ~ghost.sprite.despawned

Ran(system) == IF ghost.ran = {} THEN { system } ELSE {}

\* An input is drawn only on the path that reads it: the distance and the
\* warp die with a target, the retarget die for a hunting ghost that keeps
\* its target, the hunt die and the tile when a target is chosen
GhostMovement ==
    /\ GhostLive
    /\ "ghost_movement" \notin ghost.ran
    /\ \E delta \in FrameTimes, expelled \in BOOLEAN,
          dist \in (IF ghost.sprite.target_point # {} THEN DistClasses ELSE { "far" }) :
       \E warp_roll \in Drawn(ghost.sprite.target_point # {} /\ dist \in { "mid", "far" }) :
       \E a \in { approach(elapsed(ghost.sprite, delta), delta, dist, warp_roll).g } :
       \E retarget_roll \in Drawn(a.target_point # {} /\ a.hunt_target) :
       \E hunt_roll \in Drawn(a.target_point = {} \/ retarget_roll),
          tile_ok \in Drawn(a.target_point = {} \/ retarget_roll) :
       \E players_alive \in Drawn(hunt_roll) :
       \E r \in { ghost_movement(ghost.sprite, delta, dist, warp_roll, retarget_roll,
                                 hunt_roll, players_alive, tile_ok, expelled) } :
          ghost' = [ ghost EXCEPT !.sprite = r.g, !.dropped = r.dropped,
                                  !.ran = Ran("ghost_movement"),
                                  !.last = "ghost_movement",
                                  !.ghosts_unhaunted = IF r.g.despawned THEN @ + 1 ELSE @ ]
    /\ GhostFrame

GhostEnrage ==
    /\ GhostLive
    /\ "ghost_enrage" \notin ghost.ran
    /\ \E delta \in FrameTimes, rage \in RageLevels :
          \E g \in { ghost_enrage(ghost.sprite, delta, rage) } :
             /\ g.hunting <= MaxHunting
             /\ ghost' = [ ghost EXCEPT !.sprite = g, !.dropped = FALSE,
                                        !.ran = Ran("ghost_enrage"),
                                        !.last = "ghost_enrage" ]
    /\ GhostFrame

NextGhost == GhostMovement \/ GhostEnrage

SpecGhost == InitGhost /\ [][NextGhost]_vars

(***************************************************************************)
(* ungame/src/board.rs: boardfield_update.  A HashMap is a function whose  *)
(* domain is its key set; its iteration order is taken to be the           *)
(* lexicographic order of the keys.  Temperatures are in 1/100 degree,     *)
(* transmissivities in 1/10000, distances in 1/100 tile.                   *)
(***************************************************************************)
TempOne == 100
AmbientTemp == 6 * TempOne
Jitter == { -10 * TempOne, 10 * TempOne - 1 }
SmoothIterations == 16
TransOne == 10000
TransEps == 1

\* The element of a singleton; `The({ F(v) : v \in { e } })` is F(e) with e
\* evaluated once
The(S) == CHOOSE x \in S : TRUE

\* HashMap::get(..).unwrap_or(default)
get_or(m, k, default) == IF k \in DOMAIN m THEN m[k] ELSE default

\* HashMap::insert
insert(m, k, v) == [ q \in (DOMAIN m) \cup {k} |-> IF q = k THEN v ELSE m[q] ]

PosLess(a, b) ==
    \/ a[1] < b[1]
    \/ a[1] = b[1] /\ a[2] < b[2]
    \/ a[1] = b[1] /\ a[2] = b[2] /\ a[3] < b[3]

\* HashMap::keys / iter: the keys in iteration order
RECURSIVE keys(_)
keys(S) ==
    IF S = {} THEN << >>
    ELSE LET first == CHOOSE a \in S : \A b \in S \ {a} : PosLess(a, b)
         IN  << first >> \o keys(S \ {first})

\* BoardDataToRebuild::default
BoardDataToRebuild_default == [ lighting |-> FALSE, collision |-> FALSE ]

\* A merge that keeps only the last event read
merge_last_event(events) ==
    IF events = << >> THEN BoardDataToRebuild_default
    ELSE [ lighting |-> events[Len(events)].lighting,
           collision |-> events[Len(events)].collision ]

\* `for b in ev_bdr.read()` (lines 235-245)
merge_events(events) ==
    [ lighting |-> \E i \in 1 .. Len(events) : events[i].lighting,
      collision |-> \E i \in 1 .. Len(events) : events[i].collision ]

\* First loop of the collision rebuild (lines 249-257)
RECURSIVE insert_walkable(_, _, _)
insert_walkable(cf, q, i) ==
    IF i > Len(q) THEN cf
    ELSE IF q[i].walkable
    THEN insert_walkable(insert(cf, q[i].pos,
                                [ player_free |-> TRUE, ghost_free |-> TRUE,
                                  see_through |-> FALSE ]), q, i + 1)
    ELSE insert_walkable(cf, q, i + 1)

\* Second loop of the collision rebuild (lines 258-266)
RECURSIVE insert_colliders(_, _, _)
insert_colliders(cf, q, i) ==
    IF i > Len(q) THEN cf
    ELSE IF q[i].player_collision
    THEN insert_colliders(insert(cf, q[i].pos,
                                 [ player_free |-> FALSE,
                                   ghost_free |-> ~q[i].ghost_collision,
                                   see_through |-> q[i].see_through ]), q, i + 1)
    ELSE insert_colliders(cf, q, i + 1)

\* A rebuild whose loops run in the other order: colliders, then walkables
rebuild_collision_walkable_last(q) == insert_walkable(insert_colliders(<< >>, q, 1), q, 1)

\* `if bdr.collision { .. }` (lines 246-267)
rebuild_collision(q) == insert_colliders(insert_walkable(<< >>, q, 1), q, 1)

\* collision_field.get(pos).map(|x| x.player_free).unwrap_or(true)
player_free_at(cf, pos) == IF pos \in DOMAIN cf THEN cf[pos].player_free ELSE TRUE

\* CollisionFieldData::default(): the entry a lookup miss stands for
CollisionFieldData_default ==
    [ player_free |-> TRUE, ghost_free |-> TRUE, see_through |-> TRUE ]

\* game.rs CollisionHandler::delta: the neighbour tile npos pushes the player
\* back (`!cf.player_free && Self::ENABLE_COLLISION`)
player_blocked_by(cf, npos) == ~get_or(cf, npos, CollisionFieldData_default).player_free

\* ghost.rs ghost_movement:
\* collision_field.get(&bpos).map(|x| x.ghost_free).unwrap_or_default()
ghost_free_at(cf, bpos) == IF bpos \in DOMAIN cf THEN cf[bpos].ghost_free ELSE FALSE

\* The sum and the count of the free neighbours' temperatures (lines 296-310)
RECURSIVE free_neighbours(_, _, _, _)
free_neighbours(tf, cf, nbors, i) ==
    IF i > Len(nbors) THEN [ t_temp |-> 0, count |-> 0 ]
    ELSE LET rest == free_neighbours(tf, cf, nbors, i + 1)
         IN  IF player_free_at(cf, nbors[i])
             THEN [ t_temp |-> rest.t_temp + get_or(tf, nbors[i], AmbientTemp),
                    count |-> rest.count + 1 ]
             ELSE rest

\* A sweep that averages every added tile, free or not
RECURSIVE smooth_sweep_all(_, _, _, _)
smooth_sweep_all(tf, cf, added_temps, i) ==
    IF i > Len(added_temps) THEN tf
    ELSE LET pos == added_temps[i]
             n == free_neighbours(tf, cf, xy_neighbors_buf(pos, 1), 1)
         IN  IF n.count > 0
             THEN The({ smooth_sweep_all(t, cf, added_temps, i + 1) :
                        t \in { [ tf EXCEPT ![pos] = n.t_temp \div n.count ] } })
             ELSE smooth_sweep_all(tf, cf, added_temps, i + 1)

\* One sweep over added_temps (lines 287-317)
RECURSIVE smooth_sweep(_, _, _, _)
smooth_sweep(tf, cf, added_temps, i) ==
    IF i > Len(added_temps) THEN tf
    ELSE LET pos == added_temps[i]
             n == free_neighbours(tf, cf, xy_neighbors_buf(pos, 1), 1)
         IN  IF player_free_at(cf, pos)
             THEN The({ smooth_sweep(t, cf, added_temps, i + 1) :
                        t \in { [ tf EXCEPT ![pos] = n.t_temp \div n.count ] } })
             ELSE smooth_sweep(tf, cf, added_temps, i + 1)

\* `for _ in 0..16` (lines 286-318)
RECURSIVE smoothen(_, _, _, _)
smoothen(tf, cf, added_temps, rounds) ==
    IF rounds = 0 THEN tf
    ELSE The({ smoothen(t, cf, added_temps, rounds - 1) :
               t \in { smooth_sweep(tf, cf, added_temps, 1) } })

\* The tiles of collision_field with no temperature yet (lines 276-278)
missing_temps(tf, cf) == (DOMAIN cf) \ (DOMAIN tf)

\* Temperature seeding and smoothing (lines 269-318); rnd gives each missing
\* tile the value rng.gen_range(-10.0..10.0) returned for it
update_temperature(tf, cf, rnd) ==
    LET added_temps == keys(missing_temps(tf, cf))
        seeded == [ p \in (DOMAIN tf) \cup missing_temps(tf, cf) |->
                      IF p \in DOMAIN tf THEN tf[p] ELSE AmbientTemp + rnd[p] ]
    IN  smoothen(seeded, cf, added_temps, SmoothIterations)

\* f32 NaN, the value of 0.0 / 0.0
NaN == "NaN"

\* CachedBoardPos::TAU_I
TAU_I == 96

\* (x * x + y * y).sqrt() in 1/100 tile, rounded down
isqrt(n) == CHOOSE r \in 0 .. 300 : r * r <= n /\ n < (r + 1) * (r + 1)

\* CachedBoardPos::compute_dist, for offsets of at most two tiles
DistTable == [ dx \in -2 .. 2 |-> [ dy \in -2 .. 2 |-> isqrt(10000 * (dx * dx + dy * dy)) ] ]

\* CachedBoardPos::compute_angle: the table `angle` for the offsets (dx, dy),
\* dx = -2 .. 2 down the rows and dy = -2 .. 2 along a row; the angle of the
\* offset (0, 0) is NaN, which the cast to i64 turns into 0
AngleTable ==
    << << 60, 55, 48, 41, 36 >>,
       << 65, 60, 48, 36, 31 >>,
       << 72, 72,  0, 24, 24 >>,
       << 79, 84,  0, 12, 17 >>,
       << 84, 89,  0,  7, 12 >> >>

\* CachedBoardPos::compute_angle: the table `angle_range`, same layout
AngleRangeTable ==
    << << << -4, 4 >>, << -4, 5 >>, << -5, 5 >>, << -5, 4 >>, << -4, 4 >> >>,
       << << -5, 4 >>, << -7, 7 >>, << -12, 12 >>, << -7, 7 >>, << -4, 5 >> >>,
       << << -5, 5 >>, << -12, 12 >>, << -36, 36 >>, << -12, 12 >>, << -5, 5 >> >>,
       << << -4, 5 >>, << -7, 7 >>, << -12, 12 >>, << -7, 7 >>, << -5, 4 >> >>,
       << << -4, 4 >>, << -5, 4 >>, << -5, 5 >>, << -4, 5 >>, << -4, 4 >> >> >>

bpos_dist(s, d) == DistTable[d[1] - s[1]][d[2] - s[2]]
bpos_angle(s, d) == AngleTable[d[1] - s[1] + 3][d[2] - s[2] + 3]
bpos_angle_range(s, d) == AngleRangeTable[d[1] - s[1] + 3][d[2] - s[2] + 3]

\* (faster::tanh(u / 0.8) + 1) / 2 in 1/1000, sampled every 0.1 from u = -3.5
\* to u = 3.5
BleedTable ==
    << 0, 0, 0, 0, 0, 1, 1, 1, 1, 2, 2, 2, 3, 4, 5, 7, 9, 11, 14, 18, 23, 29,
       37, 47, 60, 76, 95, 119, 148, 182, 223, 269, 321, 378, 438, 500, 562,
       622, 679, 731, 777, 818, 852, 881, 905, 924, 940, 953, 963, 971, 977,
       982, 986, 989, 991, 993, 995, 996, 997, 998, 998, 998, 999, 999, 999,
       999, 1000, 1000, 1000, 1000, 1000 >>

\* The factor f of line 524 for u = sd - dist - 0.5 (u in 1/100 tile)
bleed(u) ==
    LET k == u \div 10
    IN  IF k < -35 THEN 0 ELSE IF k > 35 THEN 1000 ELSE BleedTable[k + 36]

\* LightFieldData::default
LightFieldData_default == [ lux |-> 0, transmissivity |-> TransOne, additional |-> 0 ]

\* LightFieldSector::new; of the 15000 spare cells of `field` the model keeps
\* the ones vec_coord can address
LightFieldSector_new(min_x, min_y, min_z, max_x, max_y, max_z) ==
    LET sz_x == Max(max_x - min_x + 1, 0)
        sz_y == Max(max_y - min_y + 1, 0)
    IN  [ field |-> [ i \in 0 .. (sz_x + sz_y * sz_x) |-> LightFieldData_default ],
          min_x |-> min_x, min_y |-> min_y, sz_x |-> sz_x, sz_y |-> sz_y ]

\* `v as usize` followed by `.min(sz)`: a negative v wraps to a huge value
as_usize_min(v, sz) == IF v < 0 THEN sz ELSE Min(v, sz)

\* LightFieldSector::vec_coord: z is ignored
vec_coord(lfs, x, y, z) ==
    as_usize_min(x - lfs.min_x, lfs.sz_x) + as_usize_min(y - lfs.min_y, lfs.sz_y) * lfs.sz_x

\* LightFieldSector::get_pos(..).unwrap()
lfs_get(lfs, p) == lfs.field[vec_coord(lfs, p[1], p[2], p[3])]

\* LightFieldSector::insert
lfs_insert(lfs, p, lfd) ==
    [ lfs EXCEPT !.field[vec_coord(lfs, p[1], p[2], p[3])] = lfd ]

\* `lf.lux += ..` through LightFieldSector::get_mut_pos
lfs_add_lux(lfs, p, lux) ==
    [ lfs EXCEPT !.field[vec_coord(lfs, p[1], p[2], p[3])].lux = @ + lux ]

\* The bounding box of the entities (lines 327-345)
entity_bounds(q) ==
    LET first_p == IF q = << >> THEN << 0, 0, 0 >> ELSE q[1].pos
        xs == { first_p[1] } \cup { q[i].pos[1] : i \in 1 .. Len(q) }
        ys == { first_p[2] } \cup { q[i].pos[2] : i \in 1 .. Len(q) }
        zs == { first_p[3] } \cup { q[i].pos[3] : i \in 1 .. Len(q) }
        lo(S) == CHOOSE a \in S : \A b \in S : a <= b
        hi(S) == CHOOSE a \in S : \A b \in S : a >= b
    IN  [ min_x |-> lo(xs), min_y |-> lo(ys), min_z |-> lo(zs),
          max_x |-> hi(xs), max_y |-> hi(ys), max_z |-> hi(zs) ]

\* A collection loop without the `+ 0.0001` of line 354
RECURSIVE collect_light_unfloored(_, _, _)
collect_light_unfloored(lf, q, i) ==
    IF i > Len(q) THEN lf
    ELSE LET src == get_or(lf, q[i].pos,
                           [ lux |-> 0, transmissivity |-> TransOne, additional |-> 0 ])
             lightdata ==
                 [ lux |-> q[i].lumens + src.lux,
                   transmissivity |-> (q[i].transmissivity * src.transmissivity) \div TransOne,
                   additional |-> src.additional + q[i].additional ]
         IN  collect_light_unfloored(insert(lf, q[i].pos, lightdata), q, i + 1)

\* The collection loop (lines 338-358): the entities of a tile stack up
RECURSIVE collect_light(_, _, _)
collect_light(lf, q, i) ==
    IF i > Len(q) THEN lf
    ELSE LET src == get_or(lf, q[i].pos,
                           [ lux |-> 0, transmissivity |-> TransOne, additional |-> 0 ])
             lightdata ==
                 [ lux |-> q[i].lumens + src.lux,
                   transmissivity |->
                       ((q[i].transmissivity * src.transmissivity) \div TransOne) + TransEps,
                   additional |-> src.additional + q[i].additional ]
         IN  collect_light(insert(lf, q[i].pos, lightdata), q, i + 1)

\* `for (k, v) in bf.light_field.iter() { lfs.insert(..) }` (lines 363-365)
RECURSIVE fill_sector(_, _, _, _)
fill_sector(lfs, lf, ks, i) ==
    IF i > Len(ks) THEN lfs
    ELSE fill_sector(lfs_insert(lfs, ks[i], lf[ks[i]]), lf, ks, i + 1)

\* `size` of a step (lines 375-381)
step_size(step) == IF step = 0 THEN 26 ELSE IF step = 1 THEN 8 ELSE 6

\* `src_lux < min_lux` (lines 394-408); min_lux is 0.001, 0.000001 and 1e-10
below_min_lux(step, src_lux) ==
    IF step = 0 THEN src_lux < LuxEps
    ELSE IF step = 1 THEN src_lux * 1000 < LuxEps
    ELSE src_lux <= 0

\* `src_lux > max_lux` (lines 399-411); max_lux is f32::MAX, 10000.0, 1000.0
above_max_lux(step, src_lux) ==
    IF step = 0 THEN FALSE
    ELSE IF step = 1 THEN src_lux > 10000 * LuxOne
    ELSE src_lux > 1000 * LuxOne

\* The smoothing steps skip a tile with no wall and no darker tile next to
\* it (lines 423-444); 0.0001 lux is 6 units
RECURSIVE min_of(_, _, _, _)
min_of(lfs, nbors, i, field) ==
    IF i > Len(nbors) THEN IF field = "lux" THEN 2000000000 ELSE 2 * TransOne
    ELSE Min(IF field = "lux" THEN lfs_get(lfs, nbors[i]).lux
             ELSE lfs_get(lfs, nbors[i]).transmissivity,
             min_of(lfs, nbors, i + 1, field))

no_harsh_difference(lfs, nbors, src_lux) ==
    /\ min_of(lfs, nbors, 1, "transmissivity") * 10 > 7 * TransOne
    /\ src_lux * 10 < 19 * (min_of(lfs, nbors, 1, "lux") + 6)

\* `src_lux /= 5.5` or `src_lux /= 1.01` (lines 447-451)
harshness(step, src_lux) ==
    IF step > 0 THEN (src_lux * 10) \div 55 ELSE (src_lux * 100) \div 101

\* `Compute shadows` (lines 466-489)
RECURSIVE cast_shadows(_, _, _, _, _)
cast_shadows(shadow_dist, lfs, root_pos, nbors, i) ==
    IF i > Len(nbors) THEN shadow_dist
    ELSE LET pillar_pos == nbors[i]
             consider_opaque == lfs_get(lfs, pillar_pos).transmissivity * 2 < TransOne
             min_dist == bpos_dist(root_pos, pillar_pos)
             angle == bpos_angle(root_pos, pillar_pos)
             angle_range == bpos_angle_range(root_pos, pillar_pos)
             hit == { (angle + d) % TAU_I : d \in angle_range[1] .. angle_range[2] }
         IN  IF ~consider_opaque
             THEN cast_shadows(shadow_dist, lfs, root_pos, nbors, i + 1)
             ELSE cast_shadows([ a \in 0 .. TAU_I - 1 |->
                                    IF a \in hit THEN Min(shadow_dist[a], min_dist)
                                    ELSE shadow_dist[a] ],
                               lfs, root_pos, nbors, i + 1)

\* `new shadow method` (lines 511-532); light_height is 4.0, total_lux 2.0
RECURSIVE spread_light(_, _, _, _, _, _)
spread_light(lfs, shadow_dist, src_lux, root_pos, nbors, i) ==
    IF i > Len(nbors) THEN lfs
    ELSE LET neighbor == nbors[i]
             dist == bpos_dist(root_pos, neighbor)
             dist2 == dist + 400
             sd == shadow_dist[bpos_angle(root_pos, neighbor)]
             lux_add == ((((src_lux * 100) \div dist2) * 100) \div dist2) \div 2
             f == bleed(sd - dist - 50)
         IN  IF dist - 300 < sd
             THEN spread_light(lfs_add_lux(lfs, neighbor, (lux_add * f) \div 1000),
                               shadow_dist, src_lux, root_pos, nbors, i + 1)
             ELSE spread_light(lfs, shadow_dist, src_lux, root_pos, nbors, i + 1)

\* The body of the loops over x, y and z for one tile (lines 385-533)
light_tile(lfs, src_lfs, step, b, root_pos) ==
    LET src == lfs_get(src_lfs, root_pos)
        size == step_size(step)
        near == xy_neighbors_buf_clamped(root_pos, 1, b.min_x, b.max_x, b.min_y, b.max_y)
        src_lux == harshness(step, src.lux)
        nbors == xy_neighbors_buf_clamped(root_pos, size, b.min_x, b.max_x, b.min_y, b.max_y)
        dimmed == lfs_add_lux(lfs, root_pos, 0 - src_lux)
        cast == cast_shadows([ a \in 0 .. TAU_I - 1 |-> (size + 1) * 100 ],
                             dimmed, root_pos, nbors, 1)
        shadow_dist == IF src.transmissivity * 2 < TransOne
                       THEN [ a \in 0 .. TAU_I - 1 |-> 0 ]
                       ELSE cast
    IN  IF below_min_lux(step, src.lux) THEN lfs
        ELSE IF above_max_lux(step, src.lux) THEN lfs
        ELSE IF step > 0 /\ no_harsh_difference(lfs, near, src.lux) THEN lfs
        ELSE spread_light(dimmed, shadow_dist, src_lux, root_pos, nbors, 1)

\* The tiles of the bounding box in the order of the loops: x, then y, then z
box_tiles(b) ==
    LET ny == b.max_y - b.min_y + 1
        nz == b.max_z - b.min_z + 1
        nx == b.max_x - b.min_x + 1
    IN  [ k \in 1 .. nx * ny * nz |->
            << b.min_x + ((k - 1) \div (ny * nz)),
               b.min_y + (((k - 1) \div nz) % ny),
               b.min_z + ((k - 1) % nz) >> ]

RECURSIVE light_tiles(_, _, _, _, _, _)
light_tiles(lfs, src_lfs, step, b, tiles, i) ==
    IF i > Len(tiles) THEN lfs
    ELSE The({ light_tiles(l, src_lfs, step, b, tiles, i + 1) :
               l \in { light_tile(lfs, src_lfs, step, b, tiles[i]) } })

\* `for step in 0..3` (lines 370-539)
RECURSIVE light_steps(_, _, _)
light_steps(lfs, b, step) ==
    IF step >= 3 THEN lfs
    ELSE The({ light_steps(l, b, step + 1) :
               l \in { light_tiles(lfs, lfs, step, b, box_tiles(b), 1) } })

\* total_lux of lines 545-548
RECURSIVE total_lux_of(_, _, _)
total_lux_of(lf, ks, i) ==
    IF i > Len(ks) THEN 0 ELSE lf[ks[i]].lux + total_lux_of(lf, ks, i + 1)

\* bf.exposure_lux of lines 545-550; 0.0 / 0 is NaN
board_exposure(lf) ==
    IF DOMAIN lf = {} THEN NaN
    ELSE ((total_lux_of(lf, keys(DOMAIN lf), 1) \div Cardinality(DOMAIN lf)) + 2 * LuxOne) \div 2

\* A lighting rebuild without `bf.light_field.clear()`
rebuild_lighting_no_clear(q) ==
    LET b == entity_bounds(q)
        collected == collect_light(light_field, q, 1)
        sector == fill_sector(LightFieldSector_new(b.min_x, b.min_y, b.min_z,
                                                   b.max_x, b.max_y, b.max_z),
                              collected, keys(DOMAIN collected), 1)
        lfs == light_steps(sector, b, 0)
        lf == [ k \in DOMAIN collected |->
                  [ collected[k] EXCEPT !.lux = lfs_get(lfs, k).lux ] ]
    IN  [ light_field |-> lf, exposure_lux |-> board_exposure(lf) ]

\* `if bdr.lighting { .. }` (lines 319-558)
rebuild_lighting(q) ==
    LET b == entity_bounds(q)
        collected == collect_light(<< >>, q, 1)
        sector == fill_sector(LightFieldSector_new(b.min_x, b.min_y, b.min_z,
                                                   b.max_x, b.max_y, b.max_z),
                              collected, keys(DOMAIN collected), 1)
        lfs == light_steps(sector, b, 0)
        lf == [ k \in DOMAIN collected |->
                  [ collected[k] EXCEPT !.lux = lfs_get(lfs, k).lux ] ]
    IN  [ light_field |-> lf, exposure_lux |-> board_exposure(lf) ]

\* Line 246: the collision pass runs only when requested
collision_pass(bdr, q, cf) == IF bdr.collision THEN rebuild_collision(q) ELSE cf

\* A lighting pass that runs whatever the request says
lighting_pass_ungated(bdr, q, lf, exposure) == rebuild_lighting(q)

\* Line 319: the lighting pass runs only when requested
lighting_pass(bdr, q, lf, exposure) ==
    IF bdr.lighting THEN rebuild_lighting(q)
    ELSE [ light_field |-> lf, exposure_lux |-> exposure ]

(***************************************************************************)
(* SpecBoard: the frames of a level.  Each frame boardfield_update reads   *)
(* the pending BoardDataToRebuild events; between frames other systems     *)
(* send events and change the entities.  The level is a corridor of three  *)
(* floor tiles with a lamp on the first and a door on the second.          *)
(* SpecRoom: the same frames in a room of two tiles, a lamp and a door on  *)
(* the first, where the floor of the second is despawned and spawned.      *)
(***************************************************************************)
MaxEvents == 2
LampLumens == 10 * LuxOne

Entity(kind, pos) ==
    [ kind |-> kind, pos |-> pos, present |-> TRUE,
      walkable |-> kind = "floor",
      player_collision |-> kind = "door",
      ghost_collision |-> kind = "door",
      see_through |-> kind # "door",
      lumens |-> IF kind = "lamp" THEN LampLumens ELSE 0,
      transmissivity |-> IF kind = "door" THEN 0 ELSE TransOne,
      additional |-> IF kind = "lamp" THEN 1 ELSE 0 ]

\* A lamp switched off / on, a door opened / closed
Switched(e) ==
    IF e.kind = "lamp"
    THEN [ e EXCEPT !.lumens = IF e.lumens = 0 THEN LampLumens ELSE 0 ]
    ELSE [ e EXCEPT !.player_collision = ~e.player_collision,
                    !.ghost_collision = ~e.ghost_collision,
                    !.see_through = ~e.see_through,
                    !.transmissivity = IF e.transmissivity = 0 THEN TransOne ELSE 0 ]

Corridor ==
    << Entity("floor", << 0, 0, 0 >>), Entity("lamp", << 0, 0, 0 >>),
       Entity("floor", << 1, 0, 0 >>), Entity("door", << 1, 0, 0 >>),
       Entity("floor", << 2, 0, 0 >>) >>

Room ==
    << Entity("floor", << 0, 0, 0 >>), Entity("lamp", << 0, 0, 0 >>),
       Entity("door", << 0, 0, 0 >>), Entity("floor", << 1, 0, 0 >>) >>

\* qt.iter(): the entities that exist
query(q) == SelectSeq(q, LAMBDA e : e.present)

Requests == [ lighting : BOOLEAN, collision : BOOLEAN ]

BoardLoaded(level) ==
    /\ qt = level
    /\ collision_field = << >>
    /\ temperature_field = << >>
    /\ light_field = << >>
    /\ exposure_lux = LuxOne
    /\ ev_bdr = << >>
    /\ bdr_log = << >>
    /\ rebuilds = 0
    /\ last_op = "init"
    /\ prebaked_lighting = << >>
    /\ active_source_ids = {}
    /\ dynamic_lights = << >>
    /\ wave_edges = << >>
    /\ visited = {}
    /\ lux_log = << >>
    /\ load = << >>
    /\ NbIdle
    /\ UnitIdle

InitBoard == BoardLoaded(Corridor)

InitRoom == BoardLoaded(Room)

boardfield_update ==
    \E bdr \in { merge_events(ev_bdr) } :
    \E cf \in { collision_pass(bdr, query(qt), collision_field) } :
    \E rnd \in [ missing_temps(temperature_field, cf) -> Jitter ] :
    \E l \in { lighting_pass(bdr, query(qt), light_field, exposure_lux) } :
        /\ collision_field' = cf
        /\ temperature_field' = update_temperature(temperature_field, cf, rnd)
        /\ light_field' = l.light_field
        /\ exposure_lux' = l.exposure_lux
        /\ ev_bdr' = << >>
        /\ bdr_log' = [ read |-> ev_bdr,
                        collision |-> IF bdr.collision THEN 1 ELSE 0,
                        lighting |-> IF bdr.lighting THEN 1 ELSE 0 ]
        /\ rebuilds' = IF bdr.lighting THEN Min(rebuilds + 1, MaxRebuildsInARow)
                       ELSE rebuilds
        /\ UNCHANGED << qt, prebaked_lighting, active_source_ids, dynamic_lights,
                        wave_edges, visited, last_op, lux_log, load, nbvars, unitvars >>

\* Some system sends a rebuild request
SendRebuild(e) ==
    /\ Len(ev_bdr) < MaxEvents
    /\ ev_bdr' = Append(ev_bdr, e)
    /\ bdr_log' = << >>
    /\ UNCHANGED << lightvars, temperature_field, load, nbvars, unitvars >>

\* game.rs roomchanged_event: the interactables take the state of their room
\* (here: the lamp is switched off or on) and a full rebuild is requested
roomchanged_event ==
    /\ Len(ev_bdr) < MaxEvents
    /\ \E on \in BOOLEAN :
          qt' = [ i \in 1 .. Len(qt) |->
                    IF qt[i].kind = "lamp"
                    THEN [ qt[i] EXCEPT !.lumens = IF on THEN LampLumens ELSE 0 ]
                    ELSE qt[i] ]
    /\ ev_bdr' = Append(ev_bdr, [ lighting |-> TRUE, collision |-> TRUE ])
    /\ bdr_log' = << >>
    /\ rebuilds' = IF qt' = qt THEN rebuilds ELSE 0
    /\ UNCHANGED << collision_field, prebaked_lighting, light_field, exposure_lux,
                    active_source_ids, dynamic_lights, wave_edges, visited, last_op,
                    lux_log, temperature_field, load, nbvars, unitvars >>

\* The player opens or closes the door; no rebuild is requested by this step
Interact(i) ==
    /\ qt[i].kind = "door"
    /\ qt' = [ qt EXCEPT ![i] = Switched(qt[i]) ]
    /\ bdr_log' = << >>
    /\ rebuilds' = 0
    /\ UNCHANGED << collision_field, prebaked_lighting, light_field, exposure_lux,
                    active_source_ids, dynamic_lights, wave_edges, visited, last_op,
                    lux_log, ev_bdr, temperature_field, load, nbvars, unitvars >>

\* The last entity of the level is despawned or spawned again
SpawnDespawn ==
    /\ qt' = [ qt EXCEPT ![Len(qt)].present = ~qt[Len(qt)].present ]
    /\ bdr_log' = << >>
    /\ rebuilds' = 0
    /\ UNCHANGED << collision_field, prebaked_lighting, light_field, exposure_lux,
                    active_source_ids, dynamic_lights, wave_edges, visited, last_op,
                    lux_log, ev_bdr, temperature_field, load, nbvars, unitvars >>

NextBoard ==
    \/ boardfield_update
    \/ \E e \in Requests : SendRebuild(e)
    \/ roomchanged_event
    \/ \E i \in 1 .. Len(qt) : Interact(i)

SpecBoard == InitBoard /\ [][NextBoard]_vars

NextRoom == NextBoard \/ SpawnDespawn

SpecRoom == InitRoom /\ [][NextRoom]_vars

\* SpecSeed: the room with collision rebuilds only, its door opened and
\* closed and its last floor despawned and spawned again
NextSeed ==
    \/ boardfield_update
    \/ SendRebuild([ lighting |-> FALSE, collision |-> TRUE ])
    \/ \E i \in 1 .. Len(qt) : Interact(i)
    \/ SpawnDespawn

SpecSeed == InitRoom /\ [][NextSeed]_vars

(***************************************************************************)
(* SpecCollide: boardfield_update on every list of up to three entities    *)
(* taken, in every order, from floors on two tiles and colliders of every  *)
(* ghost_collision and see_through flag on the first.  The board still     *)
(* holds the entries of an earlier level on three tiles.                   *)
(***************************************************************************)
MaxEntities == 3

\* An entity with player_collision = true and the other two flags as given
Collider(pos, ghost_collision, see_through) ==
    [ Entity("door", pos) EXCEPT !.ghost_collision = ghost_collision,
                                  !.see_through = see_through ]

EntityChoices ==
    { Entity("floor", << 0, 0, 0 >>), Entity("floor", << 1, 0, 0 >>) }
    \cup { Collider(<< 0, 0, 0 >>, g, s) : g \in BOOLEAN, s \in BOOLEAN }

EntityLists == UNION { [ 1 .. n -> EntityChoices ] : n \in 1 .. MaxEntities }

\* The tiles of the earlier level
StaleTiles == { << 0, 0, 0 >>, << 1, 0, 0 >>, << 2, 0, 0 >> }

InitCollide ==
    /\ qt \in EntityLists
    /\ collision_field = [ t \in StaleTiles |-> WallTile ]
    /\ temperature_field = [ t \in StaleTiles |-> AmbientTemp ]
    /\ light_field = << >>
    /\ exposure_lux = LuxOne
    /\ ev_bdr = << >>
    /\ bdr_log = << >>
    /\ rebuilds = 0
    /\ last_op = "init"
    /\ prebaked_lighting = << >>
    /\ active_source_ids = {}
    /\ dynamic_lights = << >>
    /\ wave_edges = << >>
    /\ visited = {}
    /\ lux_log = << >>
    /\ load = << >>
    /\ NbIdle
    /\ UnitIdle

NextCollide ==
    \/ boardfield_update
    \/ SendRebuild([ lighting |-> FALSE, collision |-> TRUE ])
    \/ SpawnDespawn

SpecCollide == InitCollide /\ [][NextCollide]_vars

(***************************************************************************)
(* SpecStack: boardfield_update on every list of up to three entities      *)
(* taken from a lamp on the second tile and entities of transmissivity     *)
(* factor 0, 0.5 and 1 stacked on the first.                               *)
(***************************************************************************)
MaxStack == 3

\* An entity of the first tile whose transmissivity_factor() is f
Stacked(f) == [ Entity("floor", << 0, 0, 0 >>) EXCEPT !.transmissivity = f ]

StackChoices ==
    { Entity("lamp", << 1, 0, 0 >>) } \cup { Stacked(f) : f \in { 0, TransOne \div 2, TransOne } }

StackLists == UNION { [ 1 .. n -> StackChoices ] : n \in 1 .. MaxStack }

InitStack ==
    /\ qt \in StackLists
    /\ collision_field = << >>
    /\ temperature_field = << >>
    /\ light_field = << >>
    /\ exposure_lux = LuxOne
    /\ ev_bdr = << >>
    /\ bdr_log = << >>
    /\ rebuilds = 0
    /\ last_op = "init"
    /\ prebaked_lighting = << >>
    /\ active_source_ids = {}
    /\ dynamic_lights = << >>
    /\ wave_edges = << >>
    /\ visited = {}
    /\ lux_log = << >>
    /\ load = << >>
    /\ NbIdle
    /\ UnitIdle

NextStack ==
    \/ boardfield_update
    \/ SendRebuild([ lighting |-> TRUE, collision |-> FALSE ])
    \/ SpawnDespawn

SpecStack == InitStack /\ [][NextStack]_vars

(***************************************************************************)
(* SpecLoad: src/game.rs load_level.  A LoadLevelEvent is pending; the map *)
(* has three tiles, each a player spawn point, a ghost spawn point, a room *)
(* definition or a plain tile; the board is empty or holds the entities    *)
(* and temperatures of a level played before.  A panic ends the run: the   *)
(* writes to resources made before it stay, the queued commands (despawn,  *)
(* spawn) and the RoomChangedEvent after it do not happen.                 *)
(***************************************************************************)
Utils == { "PlayerSpawn", "GhostSpawn", "RoomDef", "None" }

\* tile.pos of the tiles of the map
MapTilePos == << << 0, 0 >>, << 1, 0 >>, << 0, 1 >> >>

\* The Position of a tile: x = tile.pos.x, y = -tile.pos.y, z = 0
tile_position(tp) == << tp[1], -tp[2], 0 >>

LevelMaps == [ 1 .. Len(MapTilePos) -> Utils ]

\* The positions pushed to a spawn point list
spawn_points(map, util) ==
    { tile_position(MapTilePos[i]) : i \in { j \in 1 .. Len(MapTilePos) : map[j] = util } }

NoPlayerSpawn == "No player spawn points found"
NoGhostSpawn == "No ghost spawn points found"

InitLoad ==
    /\ \E map \in LevelMaps :
          load = [ ev |-> 1, map |-> map, outcome |-> "pending", log |-> {},
                   player |-> << >>, ghost |-> << >>, room_tiles |-> {}, ev_room |-> 0 ]
    /\ \E played \in BOOLEAN :
          /\ qt = IF played THEN Corridor ELSE << >>
          /\ temperature_field =
                IF played THEN [ p \in { Corridor[i].pos : i \in 1 .. Len(Corridor) } |->
                                   AmbientTemp ]
                ELSE << >>
    /\ collision_field = << >>
    /\ light_field = << >>
    /\ exposure_lux = LuxOne
    /\ ev_bdr = << >>
    /\ bdr_log = << >>
    /\ rebuilds = 0
    /\ last_op = "init"
    /\ prebaked_lighting = << >>
    /\ active_source_ids = {}
    /\ dynamic_lights = << >>
    /\ wave_edges = << >>
    /\ visited = {}
    /\ lux_log = << >>
    /\ NbIdle
    /\ UnitIdle

\* What load_level has done to roomdb and its log when the spawn points are
\* taken: `.pop().unwrap()` panics on an empty list (lines 1168 and 1198).
load_level_run(map) ==
    LET players == spawn_points(map, "PlayerSpawn")
        ghosts == spawn_points(map, "GhostSpawn")
        rooms == spawn_points(map, "RoomDef")
        log1 == IF players = {} THEN { NoPlayerSpawn } ELSE {}
        log2 == IF ghosts = {} THEN { NoGhostSpawn } ELSE {}
    IN  IF players = {}
        THEN [ outcome |-> "panicked", log |-> log1, room_tiles |-> rooms,
               players |-> {}, ghosts |-> {} ]
        ELSE IF ghosts = {}
        THEN [ outcome |-> "panicked", log |-> log1 \cup log2, room_tiles |-> rooms,
               players |-> {}, ghosts |-> {} ]
        ELSE [ outcome |-> "completed", log |-> {}, room_tiles |-> rooms,
               players |-> players, ghosts |-> ghosts ]

load_level ==
    /\ load.ev > 0
    /\ \E r \in { load_level_run(load.map) } :
          IF r.outcome = "panicked"
          THEN /\ load' = [ load EXCEPT !.ev = 0, !.outcome = r.outcome, !.log = r.log,
                                        !.room_tiles = r.room_tiles ]
               /\ qt' = qt
          ELSE \E p \in r.players, g \in r.ghosts :
                  /\ load' = [ load EXCEPT !.ev = 0, !.outcome = r.outcome, !.log = r.log,
                                           !.room_tiles = r.room_tiles,
                                           !.player = << p >>, !.ghost = << g >>,
                                           !.ev_room = 1 ]
                  /\ qt' = [ i \in 1 .. Len(MapTilePos) |->
                               Entity("floor", tile_position(MapTilePos[i])) ]
    /\ temperature_field' = << >>
    /\ UNCHANGED << collision_field, prebaked_lighting, light_field, exposure_lux,
                    active_source_ids, dynamic_lights, wave_edges, visited, last_op,
                    rebuilds, lux_log, ev_bdr, bdr_log, nbvars, unitvars >>

NextLoad == load_level

SpecLoad == InitLoad /\ [][NextLoad]_vars

(***************************************************************************)
(* SpecNbr: `for nb in center.iter_xy_neighbors(dist, map_size)`, for      *)
(* centres inside and outside the map, empty maps included.                *)
(***************************************************************************)
NbSize == 3
MaxDist == 2

InitNbr ==
    /\ LightIdle
    /\ BoardIdle
    /\ UnitIdle
    /\ \E cx \in -1 .. NbSize, cy \in -1 .. NbSize, d \in 0 .. MaxDist,
          w \in 0 .. NbSize, h \in 0 .. NbSize :
          /\ nb_call = [ center |-> << cx, cy, 0 >>, dist |-> d, size |-> << w, h >> ]
          /\ nb_iter = iter_xy_neighbors(<< cx, cy, 0 >>, d, << w, h >>)
    /\ nb_out = << >>
    /\ nb_done = FALSE

NbrNext ==
    /\ ~nb_done
    /\ \E r \in { NeighborsIterator_next(nb_iter) } :
          /\ nb_iter' = r.it
          /\ nb_out' = nb_out \o r.item
          /\ nb_done' = (r.item = << >>)
    /\ UNCHANGED << nb_call, lightvars, boardvars, unitvars >>

NextNbr == NbrNext

SpecNbr == InitNbr /\ [][NextNbr]_vars

\* C8: bounds safety of neighbour enumeration.  For a centre inside the map
\* (the corner (0,0,0) among them) and any radius >= 0, iter_xy_neighbors
\* yields only tiles with 0 <= x <= map_size.0 - 1 and 0 <= y <= map_size.1 - 1,
\* and the enumeration ends: it yields at most (2*dist+1)^2 tiles and, once
\* the last row is passed, next() returns None.
CentreInMap ==
    /\ nb_call.center[1] \in 0 .. (nb_call.size[1] - 1)
    /\ nb_call.center[2] \in 0 .. (nb_call.size[2] - 1)

Ticked == bdr_log' # << >>

C6_Coalescing ==
    [][ Ticked
        => /\ bdr_log'.collision =
                 (IF \E i \in 1 .. Len(ev_bdr) : ev_bdr[i].collision THEN 1 ELSE 0)
           /\ bdr_log'.lighting =
                 (IF \E i \in 1 .. Len(ev_bdr) : ev_bdr[i].lighting THEN 1 ELSE 0)
           /\ ev_bdr' = << >>
           /\ ev_bdr = << >>
              => /\ bdr_log'.collision = 0
                 /\ bdr_log'.lighting = 0
                 /\ collision_field' = collision_field
                 /\ light_field' = light_field
                 /\ exposure_lux' = exposure_lux ]_vars

\* boardfield_update has just read two events, one asking for the collision
\* rebuild only and then one asking for the lighting rebuild only, and ran
\* each rebuild once.
C6_Witness ==
    /\ bdr_log # << >>
    /\ bdr_log.read = << [ lighting |-> FALSE, collision |-> TRUE ],
                         [ lighting |-> TRUE, collision |-> FALSE ] >>
    /\ bdr_log.collision = 1
    /\ bdr_log.lighting = 1
    /\ ev_bdr = << >>

\* C9: the flags gate what a pass changes.  A run of boardfield_update whose
\* pending events all have lighting = false (a run with no event included)
\* leaves light_field and exposure_lux unchanged, and a run whose pending
\* events all have collision = false leaves collision_field unchanged.
C9_FlagsGate ==
    [][ Ticked
        => /\ (\A i \in 1 .. Len(ev_bdr) : ~ev_bdr[i].lighting)
              => (light_field' = light_field /\ exposure_lux' = exposure_lux)
           /\ (\A i \in 1 .. Len(ev_bdr) : ~ev_bdr[i].collision)
              => collision_field' = collision_field ]_vars

\* boardfield_update has just run the collision rebuild without the lighting
\* rebuild, and the light field it left alone is not the one a lighting
\* rebuild would compute for the entities of now.
C9_Witness ==
    /\ bdr_log # << >>
    /\ bdr_log.collision = 1
    /\ bdr_log.lighting = 0
    /\ light_field # << >>
    /\ light_field # rebuild_lighting(query(qt)).light_field

(***************************************************************************)
(* Claims on the lighting rebuild (SpecLight, SpecDoor)                    *)
(***************************************************************************)
Rebuilt == last_op = "lighting_rebuild"

\* The tiles a flood can reach from `from` through see_through tiles
RECURSIVE ReachFrom(_, _)
ReachFrom(from, cf) ==
    LET more == from \cup { n \in Tiles : cf[n].see_through
                                          /\ \E t \in from : n \in Neighbours4(t) }
    IN  IF more = from THEN from ELSE ReachFrom(more, cf)

\* The tiles beyond the door, seen from the wave edges: those no flood from a
\* wave edge reaches while the door is closed (the door's tile is the first).
BeyondDoor(edges) ==
    Tiles \ ReachFrom(edges, [ collision_field EXCEPT ![qt[DoorIx].pos] = DoorTile(FALSE) ])

\* C5: door reactivity.  In the sequence rebuild (door closed), open + rebuild,
\* close + rebuild, every tile beyond the door that the resumed flood of the
\* second rebuild lights has more lux after the second rebuild than after the
\* first, and after the third rebuild the lux it had after the first.
C5_DoorReactivity ==
    Len(lux_log) = DoorRuns
    => \A t \in lux_log[2].resumed \cap BeyondDoor(lux_log[2].edges) :
          /\ lux_log[2].lux[t] > lux_log[1].lux[t]
          /\ lux_log[3].lux[t] = lux_log[1].lux[t]

\* The three rebuilds are done, the prebaked lamp is on, no wave edge was
\* resumed while the door was closed, and the resumed flood of the second
\* rebuild lit a tile behind the door's tile.
C5_Witness ==
    /\ Len(lux_log) = DoorRuns
    /\ StaticLampId \in active_source_ids
    /\ lux_log[1].edges = {}
    /\ lux_log[3].edges = {}
    /\ \E t \in lux_log[2].resumed \cap BeyondDoor(lux_log[2].edges) :
          /\ t # qt[DoorIx].pos
          /\ lux_log[2].lux[t] > lux_log[1].lux[t]

RECURSIVE SumOver(_, _)
SumOver(f, S) ==
    IF S = {} THEN 0
    ELSE LET t == CHOOSE x \in S : TRUE IN f[t].lux + SumOver(f, S \ {t})

C10_ActiveSourceRule ==
    Rebuilt => (StaticLampId \in active_source_ids <=> qt[StaticIx].emits_light)

(***************************************************************************)
(* Claims on the dynamic flood (SpecFlood)                                 *)
(***************************************************************************)
Flooded == last_op = "add_dynamic_light_sources"

\* The lux the flood gives each tile with only light i of the list present
LuxAlone(i) ==
    add_dynamic_light_sources(collision_field, FreshField, << dynamic_lights[i] >>).lfs

\* C2: additivity of the dynamic flood.  On a map without occluders, with two
\* dynamic lights, every tile's lux equals the sum of the lux it gets with
\* only the first light present and the lux it gets with only the second.
\* (Stated for lights on two different tiles.)
C2_Additivity ==
    (/\ Flooded
     /\ Len(dynamic_lights) = 2
     /\ dynamic_lights[1].pos # dynamic_lights[2].pos
     /\ Occluders(collision_field) = {})
    => \A t \in Tiles :
          light_field[t].lux = LuxAlone(1)[t].lux + LuxAlone(2)[t].lux

\* Hop distance on a map without occluders
Hops(a, b) == Abs(a[1] - b[1]) + Abs(a[2] - b[2]) + Abs(a[3] - b[3])

\* C3: monotonic attenuation.  With a single dynamic light and no occluders,
\* for tiles at hop distance d and d+1 from the light, the lux at d+1 is at
\* most the lux at d, and strictly less while it is at or above 0.001.
C3_MonotonicAttenuation ==
    (Flooded /\ Len(dynamic_lights) = 1 /\ Occluders(collision_field) = {})
    => \A t1 \in Tiles, t2 \in Tiles :
          Hops(dynamic_lights[1].pos, t2) = Hops(dynamic_lights[1].pos, t1) + 1
          => /\ light_field[t2].lux <= light_field[t1].lux
             /\ light_field[t2].lux >= LuxEps
                => light_field[t2].lux < light_field[t1].lux

\* A single dim light in a corner: its flood decreases hop by hop and dies
\* below the threshold before the far corner.
C3_Witness ==
    /\ Flooded
    /\ Len(dynamic_lights) = 1
    /\ Occluders(collision_field) = {}
    /\ dynamic_lights[1].pos = << 0, 0, 0 >>
    /\ light_field[<< 1, 0, 0 >>].lux >= LuxEps
    /\ light_field[<< 1, 0, 0 >>].lux < light_field[<< 0, 0, 0 >>].lux
    /\ light_field[<< 1, 1, 0 >>].lux >= LuxEps
    /\ light_field[<< 1, 1, 0 >>].lux < light_field[<< 1, 0, 0 >>].lux
    /\ light_field[<< 2, 1, 0 >>].lux = 0
    /\ light_field[<< 2, 0, 0 >>].lux >= LuxEps

LightTiles == { dynamic_lights[i].pos : i \in 1 .. Len(dynamic_lights) }

\* A tile all of whose 4-connected neighbours are occluders
Enclosed(t) ==
    \A n \in Neighbours4(t) : ~collision_field[n].see_through

\* C4: occlusion correctness.  A tile enclosed by see_through=false tiles on
\* its four sides, holding no light itself, ends the dynamic flood with zero
\* lux, wherever the lights outside the enclosure (the tile and its four
\* occluders) stand and however many they are.
C4_OcclusionCorrectness ==
    Flooded
    => \A t \in Tiles :
          (Enclosed(t) /\ LightTiles \cap ({t} \cup Neighbours4(t)) = {})
          => light_field[t].lux = 0

\* A tile walled in on four sides and two lights outside the enclosure that
\* light other tiles of the map
C4_Witness ==
    /\ Flooded
    /\ Len(dynamic_lights) = 2
    /\ \E t \in Tiles :
          /\ Cardinality(Neighbours4(t)) = 4
          /\ Enclosed(t)
          /\ collision_field[t].see_through
          /\ LightTiles \cap ({t} \cup Neighbours4(t)) = {}
          /\ light_field[t].lux = 0
    /\ \E t \in Tiles : light_field[t].lux > 0 /\ t \notin LightTiles

(***************************************************************************)
(* SpecForms: the three forms of the neighbour enumeration, for centres    *)
(* inside and outside the bounds: _xy_neighbors_buf, _xy_neighbors_buf_    *)
(* clamped with bounds [lo, hi] on both axes, and NeighborsIterator::new   *)
(* with from = (lo, lo) and to = (hi, hi) followed by calls of next().     *)
(***************************************************************************)
Forms == { "buf", "buf_clamped", "iter" }

InitForms ==
    /\ LightIdle
    /\ BoardIdle
    /\ UnitIdle
    /\ \E cx \in -1 .. NbSize, cy \in -1 .. NbSize, d \in 0 .. MaxDist,
          lo \in 0 .. 1, hx \in 1 .. NbSize - 1, hy \in 1 .. NbSize - 1, form \in Forms :
          /\ nb_call = [ center |-> << cx, cy, 0 >>, dist |-> d, form |-> form,
                         min_x |-> lo, max_x |-> hx, min_y |-> lo, max_y |-> hy ]
          /\ nb_iter = IF form = "iter"
                       THEN NeighborsIterator_new(<< cx, cy, 0 >>, d,
                                                  << lo, lo >>, << hx, hy >>)
                       ELSE << >>
    /\ nb_out = << >>
    /\ nb_done = FALSE

\* self._xy_neighbors_buf(dist, &mut out)
NeighborsBuf ==
    /\ nb_call.form = "buf"
    /\ ~nb_done
    /\ nb_out' = xy_neighbors_buf(nb_call.center, nb_call.dist)
    /\ nb_done' = TRUE
    /\ UNCHANGED << nb_call, nb_iter, lightvars, boardvars, unitvars >>

\* self._xy_neighbors_buf_clamped(dist, &mut out, min_x, max_x, min_y, max_y)
NeighborsBufClamped ==
    /\ nb_call.form = "buf_clamped"
    /\ ~nb_done
    /\ nb_out' = xy_neighbors_buf_clamped(nb_call.center, nb_call.dist,
                                          nb_call.min_x, nb_call.max_x,
                                          nb_call.min_y, nb_call.max_y)
    /\ nb_done' = TRUE
    /\ UNCHANGED << nb_call, nb_iter, lightvars, boardvars, unitvars >>

\* iterator.next()
NeighborsIter ==
    /\ nb_call.form = "iter"
    /\ NbrNext

NextForms == NeighborsBuf \/ NeighborsBufClamped \/ NeighborsIter

SpecForms == InitForms /\ [][NextForms]_vars

(***************************************************************************)
(* Claims on the steps of the lighting rebuild (SpecLight)                 *)
(***************************************************************************)
\* The emitters of the query that are not the prebaked source, in query
\* order, as dynamic lights
DynamicEmitters ==
    LET ix == SelectSeq([ i \in 1 .. Len(qt) |-> i ],
                        LAMBDA i : /\ i # StaticIx
                                   /\ qt[i].emits_light
                                   /\ qt[i].lumens > 0)
    IN  [ k \in 1 .. Len(ix) |->
            DynamicLight(qt[ix[k]].pos, qt[ix[k]].lumens, qt[ix[k]].color) ]

\* C11: dynamic-emitter classification.  The dynamic list produced by
\* identify_active_light_sources holds exactly the entities with
\* emits_light = true and emissivity > 0 that are not prebaked sources, each
\* with its position, lux and colour, wherever the emitter stands (stated for
\* emitters standing off the tile of the prebaked source).
C11_DynamicClassification ==
    (Rebuilt /\ qt[LampIx].pos # StaticLampPos)
    => dynamic_lights = DynamicEmitters

Applied == last_op = "apply_prebaked_contributions"

\* The prebake of the tile references a source of the active set
ReferencesActive(t) ==
    \E id \in active_source_ids : prebaked_lighting[t].source_id = {id}

\* C12 as stated: prebaked application.  After apply_prebaked_contributions on
\* a fresh working field every tile whose prebake references a source id of
\* the active set has its baked lux and colour, and every other tile (no
\* source id, or one absent from the active set) is left unchanged.
C12_PrebakedApplication ==
    Applied
    => \A t \in Tiles :
          IF ReferencesActive(t)
          THEN /\ light_field[t].lux = prebaked_lighting[t].lux
               /\ light_field[t].color = prebaked_lighting[t].color
          ELSE light_field[t] = FreshField[t]

\* C12 amended: prebaked application above the threshold.  After
\* apply_prebaked_contributions on a fresh working field every tile whose
\* prebake references a source id of the active set with a baked lux above
\* 0.001 has its baked lux and colour, and every other tile (no source id, a
\* source id absent from the active set, or a baked lux of at most 0.001) is
\* left unchanged.
C12_PrebakedApplicationAboveThreshold ==
    Applied
    => \A t \in Tiles :
          IF ReferencesActive(t) /\ prebaked_lighting[t].lux > LuxEps
          THEN /\ light_field[t].lux = prebaked_lighting[t].lux
               /\ light_field[t].color = prebaked_lighting[t].color
          ELSE light_field[t] = FreshField[t]

\* The lamp is on: a tile has taken its baked lux and colour, a tile without
\* a source id is dark, and so is a wave edge that has lost its source id.
C12_Witness ==
    /\ Applied
    /\ active_source_ids = { StaticLampId }
    /\ \E t \in Tiles :
          /\ ReferencesActive(t)
          /\ light_field[t].lux = prebaked_lighting[t].lux
          /\ light_field[t].lux > LuxEps
          /\ light_field[t].color = Blue
    /\ \E t \in Tiles :
          /\ prebaked_lighting[t].source_id = {}
          /\ prebaked_lighting[t].lux = 0
          /\ light_field[t] = FreshField[t]
    /\ \E t \in Tiles :
          /\ prebaked_lighting[t].source_id = {}
          /\ prebaked_lighting[t].lux > LuxEps
          /\ light_field[t] = FreshField[t]

EdgesFound == last_op = "find_wave_edge_tiles"

\* An open door stands on the tile or on one of its neighbours (z included)
NextToOpenDoor(t) ==
    \E i \in 1 .. Len(qt) :
        /\ qt[i].class = "Door"
        /\ qt[i].state = "Open"
        /\ \A a \in 1 .. 3 : qt[i].pos[a] - t[a] \in -1 .. 1

NextToDoor(t) ==
    \E i \in 1 .. Len(qt) :
        /\ qt[i].class = "Door"
        /\ \A a \in 1 .. 3 : qt[i].pos[a] - t[a] \in -1 .. 1

ResumptionPoints ==
    { t \in Tiles : /\ prebaked_lighting[t].is_wave_edge
                    /\ ReferencesActive(t)
                    /\ NextToOpenDoor(t) }

\* C13: wave-edge selection.  find_wave_edge_tiles returns a tile if and only
\* if its prebake has is_wave_edge = true, its source id is in the active set
\* and an open door lies in its 26-neighbourhood; each tile is returned once,
\* with its baked lux and colour.
C13_WaveEdgeSelection ==
    EdgesFound
    => /\ { wave_edges[i].pos : i \in 1 .. Len(wave_edges) } = ResumptionPoints
       /\ Len(wave_edges) = Cardinality(ResumptionPoints)
       /\ \A i \in 1 .. Len(wave_edges) :
             /\ wave_edges[i].lux = prebaked_lighting[wave_edges[i].pos].lux
             /\ wave_edges[i].color = prebaked_lighting[wave_edges[i].pos].color

\* One door is open and one closed; a wave edge next to the open door is
\* returned, a wave edge of the active source next only to the closed door
\* is not, and neither is a wave edge next to the open door that has lost its
\* source id.
C13_Witness ==
    /\ EdgesFound
    /\ wave_edges # << >>
    /\ \E t \in Tiles :
          /\ prebaked_lighting[t].is_wave_edge
          /\ ReferencesActive(t)
          /\ NextToDoor(t)
          /\ ~NextToOpenDoor(t)
          /\ \A i \in 1 .. Len(wave_edges) : wave_edges[i].pos # t
    /\ \E t \in Tiles :
          /\ prebaked_lighting[t].is_wave_edge
          /\ prebaked_lighting[t].source_id = {}
          /\ NextToOpenDoor(t)
          /\ \A i \in 1 .. Len(wave_edges) : wave_edges[i].pos # t

(***************************************************************************)
(* Claims on the floods of one rebuild (SpecDoor)                          *)
(***************************************************************************)
\* The tiles that hold the baked contribution of an active source
HoldsBaked ==
    { t \in Tiles : ReferencesActive(t) /\ prebaked_lighting[t].lux > LuxEps }

\* C14: no double counting.  Within one lighting rebuild the floods add light
\* to a tile at most once: the tiles the wave-edge resume adds light to are
\* tiles no flood of this rebuild has lit before, none of them is a flood
\* origin (the tile of a dynamic light or a resumed wave edge), and none of
\* them already holds the baked contribution of the resumed source.
C14_NoDoubleCounting ==
    (Rebuilt /\ lux_log # << >>)
    => LET run == lux_log[Len(lux_log)]
       IN  /\ run.resumed \cap run.edges = {}
           /\ run.resumed \cap { dynamic_lights[i].pos : i \in 1 .. Len(dynamic_lights) } = {}
           /\ run.resumed \cap HoldsBaked = {}

(***************************************************************************)
(* Claims on the collision field and its consumers (SpecRoom)              *)
(***************************************************************************)
\* The tiles of the level and the tiles around them
NearTiles == { << x, y, 0 >> : x \in -1 .. 2, y \in -1 .. 1 }

Occupied == { qt[i].pos : i \in { j \in 1 .. Len(qt) : qt[j].present } }

CollisionRebuilt == bdr_log # << >> /\ bdr_log.collision = 1

\* C15: sparse-map semantics.  After a collision rebuild a tile with no
\* occupying entity has no collision_field entry, and every consumer lookup
\* takes the missing entry for a free tile: the tile does not block the
\* player, the ghost's ghost_free lookup accepts it as a movement target, and
\* temperature smoothing counts it as free.
C15_SparseMapSemantics ==
    CollisionRebuilt
    => \A t \in NearTiles \ Occupied :
          /\ t \notin DOMAIN collision_field
          /\ ~player_blocked_by(collision_field, t)
          /\ ghost_free_at(collision_field, t)
          /\ player_free_at(collision_field, t)

(***************************************************************************)
(* Claims on degenerate levels                                             *)
(***************************************************************************)
\* A lighting pass of boardfield_update has just run
LightingRebuilt == bdr_log # << >> /\ bdr_log.lighting = 1

\* C16: zero light sources.  On a non-empty map with no light-emitting entity
\* and no active prebaked source a lighting rebuild completes, leaves every
\* tile of light_field at lux 0 and sets exposure_lux to 1 = (0 + 2) / 2.
\* The first conjunct is the rebuild of unlight/src/utils.rs, the second the
\* lighting pass of boardfield_update.
C16_ZeroLightSources ==
    /\ ( /\ Rebuilt
         /\ \A i \in 1 .. Len(qt) : ~qt[i].emits_light
         /\ active_source_ids = {} )
       => /\ \A t \in Tiles : light_field[t].lux = 0
          /\ exposure_lux = LuxOne
    /\ ( /\ LightingRebuilt
         /\ query(qt) # << >>
         /\ \A i \in 1 .. Len(qt) : qt[i].lumens = 0 )
       => /\ DOMAIN light_field # {}
          /\ \A k \in DOMAIN light_field : light_field[k].lux = 0
          /\ exposure_lux = LuxOne

\* Both lamps are switched off, the movable one standing on a tile the
\* prebake did not light and the other tiles holding baked light of the
\* prebaked lamp, and the rebuild has left the map dark.
C16_Witness ==
    /\ Rebuilt
    /\ \A i \in 1 .. Len(qt) : ~qt[i].emits_light
    /\ qt[LampIx].lumens > 0
    /\ prebaked_lighting[qt[LampIx].pos].source_id = {}
    /\ \E t \in Tiles : prebaked_lighting[t].lux > LuxOne
    /\ active_source_ids = {}
    /\ dynamic_lights = << >>
    /\ \A t \in Tiles : light_field[t].lux = 0
    /\ exposure_lux = LuxOne

\* load_level has run on the pending LoadLevelEvent
LevelLoadRun == load # << >> /\ load.outcome # "pending"

LacksSpawnPoint ==
    \/ spawn_points(load.map, "PlayerSpawn") = {}
    \/ spawn_points(load.map, "GhostSpawn") = {}

\* C17: zero spawn points.  Loading a level whose map has no player spawn
\* point or no ghost spawn point logs the problem and still completes level
\* construction: load_level does not fail.
C17_ZeroSpawnPoints ==
    (LevelLoadRun /\ LacksSpawnPoint)
    => /\ load.outcome = "completed"
       /\ load.log # {}

(***************************************************************************)
(* Claims on the forms of the neighbour enumeration (SpecForms)            *)
(***************************************************************************)
\* The axis-aligned square of side 2*dist+1 around the centre, at its z
Square ==
    { << x, y, nb_call.center[3] >> :
        x \in (nb_call.center[1] - nb_call.dist) .. (nb_call.center[1] + nb_call.dist),
        y \in (nb_call.center[2] - nb_call.dist) .. (nb_call.center[2] + nb_call.dist) }

\* Row by row, x varying fastest
RowMajor(out) ==
    \A i \in 1 .. Len(out), j \in 1 .. Len(out) :
        i < j => \/ out[i][2] < out[j][2]
                 \/ out[i][2] = out[j][2] /\ out[i][1] < out[j][1]

\* C18: shape and order of the neighbour enumeration.  The unclamped
\* enumeration yields exactly the (2*dist+1)^2 tiles of the square around the
\* centre at the centre's z, each once, and the buffer forms and the iterator
\* form yield their tiles in row-major order, x varying fastest.
C18_EnumerationShapeAndOrder ==
    /\ (nb_call.form = "buf" /\ nb_done)
       => /\ { nb_out[i] : i \in 1 .. Len(nb_out) } = Square
          /\ Len(nb_out) = (2 * nb_call.dist + 1) * (2 * nb_call.dist + 1)
          /\ RowMajor(nb_out)
    /\ (nb_call.form = "buf_clamped" /\ nb_done) => RowMajor(nb_out)
    /\ nb_call.form = "iter" => RowMajor(nb_out)

InsideBounds(t) ==
    /\ t[1] \in nb_call.min_x .. nb_call.max_x
    /\ t[2] \in nb_call.min_y .. nb_call.max_y

\* C19: out-of-bounds filtering in the clamped enumeration.  For a centre
\* inside or outside the bounds, every tile the clamped buffer form and the
\* clamped iterator form yield lies inside the bounds on both axes and within
\* Chebyshev distance dist of the centre; when the square around the centre
\* does not meet the bounds, nothing is yielded.
C19_ClampedFiltering ==
    nb_call.form \in { "buf_clamped", "iter" }
    => /\ \A i \in 1 .. Len(nb_out) : InsideBounds(nb_out[i]) /\ nb_out[i] \in Square
       /\ (\A t \in Square : ~InsideBounds(t)) => nb_out = << >>

(***************************************************************************)
(* Claims on entities outside the map (SpecBounds)                         *)
(***************************************************************************)
RebuildAttempted == Rebuilt \/ Panicked

\* The entities that stand on a tile of the map
OnTheMap == SelectSeq(qt, LAMBDA e : is_in_bounds(e.pos, map_size))

\* C20: no failure crosses the boundary of the lighting core.  For any set of
\* entities, light emitters and doors outside the map bounds included, the
\* lighting rebuild (identify_active_light_sources, collect_door_states,
\* add_dynamic_light_sources, propagate_from_wave_edges) completes without an
\* out-of-range array access, and an entity outside the bounds is ignored:
\* the rebuild gives the light field it gives without that entity.
C20_NoFailureCrossesBoundary ==
    RebuildAttempted
    => /\ ~Panicked
       /\ light_field =
             lighting_rebuild_result(prebaked_lighting, collision_field, OnTheMap).light_field

(***************************************************************************)
(* Claims on the flood of the dynamic lights                               *)
(***************************************************************************)
\* The scenario of the wall: source at (2,2,0), occluder at (3,2,0), both
\* floods run.
WallScenarioRun ==
    /\ Len(lux_log) = 2
    /\ dynamic_lights[1].pos = << 2, 2, 0 >>
    /\ { t \in ScenarioTiles : ~collision_field[t].see_through } = { << 3, 2, 0 >> }

\* C21: on the 5x5x1 map with one source of 10 lux at (2,2,0), the lux of
\* (4,2,0) after the rebuild with a see_through=false tile at (3,2,0) is
\* strictly lower than after the rebuild without it, and below 0.75 times
\* that value.
C21_WallScenario ==
    WallScenarioRun
    => /\ lux_log[2][<< 4, 2, 0 >>] < lux_log[1][<< 4, 2, 0 >>]
       /\ FalloffDen * lux_log[2][<< 4, 2, 0 >>] < FalloffNum * lux_log[1][<< 4, 2, 0 >>]

\* The scenario has run, the open map lit (4,2,0), and with the wall the
\* light still reaches it around the occluder.
C21_Witness ==
    /\ WallScenarioRun
    /\ lux_log[1][<< 4, 2, 0 >>] > 0
    /\ lux_log[2][<< 4, 2, 0 >>] > 0
    /\ light_field[<< 3, 2, 0 >>].lux = 0

\* L * 0.75^h in the arithmetic of the flood: one multiplication per hop
RECURSIVE Attenuated(_, _)
Attenuated(l, h) ==
    IF h = 0 THEN l ELSE (Attenuated(l, h - 1) * FalloffNum) \div FalloffDen

\* The tiles at 0, 1, 2, .. hops from the first ring over 4-connected
\* see_through tiles: rings[h + 1] holds the tiles whose shortest path has h hops
RECURSIVE HopRings(_, _, _)
HopRings(rings, seen, cf) ==
    LET next == { n \in DOMAIN cf \ seen :
                    /\ cf[n].see_through
                    /\ \E t \in rings[Len(rings)] : Hops(n, t) = 1 }
    IN  IF next = {} THEN rings
        ELSE HopRings(Append(rings, next), seen \cup next, cf)

LawFlooded == last_op \in { "add_dynamic_light_sources", "propagate_from_wave_edges" }

\* Origin, lux and hop budget of the flood that ran
LawOrigin ==
    IF last_op = "propagate_from_wave_edges" THEN wave_edges[1] ELSE dynamic_lights[1]

\* The lux the law gives the tile t, for the rings of the origin o
LawLux(o, rings, t) ==
    LET hs == { h \in 1 .. (Len(rings) - 1) : t \in rings[h + 1] }
    IN  IF hs = {} THEN 0
        ELSE LET h == CHOOSE x \in hs : TRUE
             IN  IF h <= o.distance /\ Attenuated(o.lux, h) >= LuxEps
                 THEN Attenuated(o.lux, h)
                 ELSE 0

\* C22: flood value law.  After a flood from a single origin with lux L and
\* hop budget B (30 for a dynamic source, 20 for a wave edge), every tile
\* other than the origin whose shortest 4-connected path from the origin
\* over see_through tiles has h hops holds L * 0.75^h if h <= B and
\* L * 0.75^h >= 0.001, and a tile that is further, dimmer, unreachable or
\* not see_through holds nothing.
C22_FloodValueLaw ==
    LawFlooded
    => \E rings \in { HopRings(<< { LawOrigin.pos } >>, { LawOrigin.pos },
                                collision_field) } :
          \A t \in DOMAIN collision_field \ { LawOrigin.pos } :
             light_field[t].lux = LawLux(LawOrigin, rings, t)

\* A dynamic flood in the corridor from its first tile: the tile 30 hops
\* away is lit and the next one, still above the threshold by the law of
\* attenuation, is dark because the budget is spent.
C22_Witness ==
    /\ last_op = "add_dynamic_light_sources"
    /\ DOMAIN collision_field = CorridorTiles
    /\ dynamic_lights[1].pos = << 0, 0, 0 >>
    /\ light_field[<< DynamicMaxDistance, 0, 0 >>].lux >= LuxEps
    /\ Attenuated(dynamic_lights[1].lux, DynamicMaxDistance + 1) >= LuxEps
    /\ light_field[<< DynamicMaxDistance + 1, 0, 0 >>].lux = 0

\* C23: flood termination.  On every map, for every list of dynamic sources
\* and wave edges, no tile is enqueued as a neighbour more than once in a
\* rebuild, and the loops of add_dynamic_light_sources and
\* propagate_from_wave_edges both come to an end with an empty queue.
C23_FloodTermination ==
    /\ [](\A t \in DOMAIN bfs.enq : bfs.enq[t] <= 1)
    /\ <>(bfs.phase = "done" /\ bfs.st.queue = << >>)

\* A rebuild that ended after both loops enqueued neighbours: a dim dynamic
\* light lit the tiles next to it, and the flood of a wave edge in the other
\* corner enqueued its own origin once, as the neighbour of a tile it lit.
C23_Witness ==
    /\ bfs.phase = "done"
    /\ bfs.st.queue = << >>
    /\ Len(dynamic_lights) = 1
    /\ Len(wave_edges) = 1
    /\ dynamic_lights[1].lux = LuxLo
    /\ dynamic_lights[1].pos # wave_edges[1].pos
    /\ bfs.enq[wave_edges[1].pos] = 1
    /\ \E t \in Tiles : Hops(t, dynamic_lights[1].pos) = 1 /\ bfs.enq[t] = 1
    /\ \E t \in Tiles : Hops(t, wave_edges[1].pos) = 1 /\ bfs.enq[t] = 1

(***************************************************************************)
(* Claims on boardfield_update                                             *)
(***************************************************************************)
\* The entities of the query that stand on p and collide with the player /
\* can be walked on
CollidersOn(p) ==
    { i \in 1 .. Len(query(qt)) : query(qt)[i].pos = p /\ query(qt)[i].player_collision }

WalkablesOn(p) ==
    { i \in 1 .. Len(query(qt)) : query(qt)[i].pos = p /\ query(qt)[i].walkable }

\* C24: collision derivation.  After a collision rebuild, a tile with an
\* entity of player_collision=true has player_free=false and, for one of
\* these entities, ghost_free = ~ghost_collision and see_through as the entity
\* says, with or without a walkable entity on the tile and in every order of
\* the entities; a tile with walkable entities and no collider has
\* player_free and ghost_free true; a tile with neither has no entry, so the
\* entries of tiles no longer occupied are gone.
C24_CollisionDerivation ==
    CollisionRebuilt
    => \A p \in StaleTiles :
          /\ CollidersOn(p) # {}
             => /\ p \in DOMAIN collision_field
                /\ ~collision_field[p].player_free
                /\ \E i \in CollidersOn(p) :
                      /\ collision_field[p].ghost_free = ~query(qt)[i].ghost_collision
                      /\ collision_field[p].see_through = query(qt)[i].see_through
          /\ (CollidersOn(p) = {} /\ WalkablesOn(p) # {})
             => /\ p \in DOMAIN collision_field
                /\ collision_field[p].player_free
                /\ collision_field[p].ghost_free
          /\ (CollidersOn(p) = {} /\ WalkablesOn(p) = {})
             => p \notin DOMAIN collision_field

\* A rebuild on a collider listed before the floor of its tile, after the
\* floor of the second tile was despawned: the first tile blocks the player,
\* lets the ghost and the light through, and the other entries are gone.
C24_Witness ==
    /\ CollisionRebuilt
    /\ Len(qt) = 3
    /\ qt[1] = Collider(<< 0, 0, 0 >>, FALSE, TRUE)
    /\ qt[2] = Entity("floor", << 0, 0, 0 >>)
    /\ qt[3].pos = << 1, 0, 0 >>
    /\ ~qt[3].present
    /\ DOMAIN collision_field = { << 0, 0, 0 >> }
    /\ ~collision_field[<< 0, 0, 0 >>].player_free
    /\ collision_field[<< 0, 0, 0 >>].ghost_free
    /\ collision_field[<< 0, 0, 0 >>].see_through

(***************************************************************************)
(* Claims on the directional helpers of BoardPosition                      *)
(***************************************************************************)
DirCalled == dir.helper # "none"

NonNegative(p) == p[1] >= 0 /\ p[2] >= 0 /\ p[3] >= 0

\* C25: directional helpers never go negative.  For every BoardPosition with
\* non-negative coordinates, left() and top() return a position with
\* non-negative coordinates, left() at x = 0 and top() at y = 0 return the
\* receiver, and each of left, right, top and bottom returns a position that
\* differs from the receiver in at most one coordinate, by at most 1, with z
\* unchanged.
C25_DirectionalHelpers ==
    (DirCalled /\ NonNegative(dir.pos))
    => /\ ~dir.panicked
       /\ dir.helper \in { "left", "top" } => NonNegative(dir.returned)
       /\ (dir.helper = "left" /\ dir.pos[1] = 0) => dir.returned = dir.pos
       /\ (dir.helper = "top" /\ dir.pos[2] = 0) => dir.returned = dir.pos
       /\ dir.returned[3] = dir.pos[3]
       /\ Abs(dir.returned[1] - dir.pos[1]) + Abs(dir.returned[2] - dir.pos[2]) <= 1

\* C25, with the two additions that can overflow left out: the same, where
\* right() is called on a receiver with x below the largest i64 and bottom()
\* on one with y below it.
C25_DirectionalHelpersInRange ==
    (/\ DirCalled
     /\ NonNegative(dir.pos)
     /\ ~(dir.helper = "right" /\ dir.pos[1] = I64_MAX)
     /\ ~(dir.helper = "bottom" /\ dir.pos[2] = I64_MAX))
    => /\ ~dir.panicked
       /\ dir.helper \in { "left", "top" } => NonNegative(dir.returned)
       /\ (dir.helper = "left" /\ dir.pos[1] = 0) => dir.returned = dir.pos
       /\ (dir.helper = "top" /\ dir.pos[2] = 0) => dir.returned = dir.pos
       /\ dir.returned[3] = dir.pos[3]
       /\ Abs(dir.returned[1] - dir.pos[1]) + Abs(dir.returned[2] - dir.pos[2]) <= 1

\* left() was called on a tile of the first column and returned the tile
C25_Witness ==
    /\ dir.helper = "left"
    /\ dir.pos = << 0, 2, 1 >>
    /\ ~dir.panicked
    /\ dir.returned = dir.pos

\* C26: transmissivity floor.  After the lighting rebuild of
\* boardfield_update every entry of light_field has a transmissivity above
\* zero, however many entities stand on the tile and whatever their
\* transmissivity factors in [0, 1] are, all of them 0 included.
C26_TransmissivityFloor ==
    LightingRebuilt
    => \A k \in DOMAIN light_field : light_field[k].transmissivity > 0

\* A rebuild on three fully opaque entities stacked on one tile: the tile's
\* transmissivity is the floor of 0.0001
C26_Witness ==
    /\ LightingRebuilt
    /\ Len(query(qt)) = MaxStack
    /\ \A i \in 1 .. Len(qt) : qt[i] = Stacked(0)
    /\ light_field[<< 0, 0, 0 >>].transmissivity = TransEps

\* The values a tile can be seeded with: ambient_temp + rng.gen_range(-10.0..10.0)
SeedValues == { AmbientTemp + j : j \in Jitter }

\* The tiles a step gave a temperature
Seeded == (DOMAIN temperature_field') \ (DOMAIN temperature_field)

\* C27: temperature seeding frame.  A run of boardfield_update gives a
\* temperature only to tiles that are in collision_field and had none, never
\* changes the temperature a tile had before the run, and leaves a tile it
\* seeded that is not player_free at its seed value.
C27_TemperatureSeedingFrame ==
    [][ bdr_log' # << >>
        => /\ Seeded \subseteq DOMAIN collision_field'
           /\ \A p \in DOMAIN temperature_field :
                 /\ p \in DOMAIN temperature_field'
                 /\ temperature_field'[p] = temperature_field[p]
           /\ \A p \in Seeded :
                 ~collision_field'[p].player_free => temperature_field'[p] \in SeedValues
      ]_vars

\* After a run that seeded the door's tile and the free tile next to it: the
\* door's tile holds the highest seed, the free tile a smoothed value that is
\* no seed.
C27_Witness ==
    /\ bdr_log # << >>
    /\ DOMAIN temperature_field = { << 0, 0, 0 >>, << 1, 0, 0 >> }
    /\ ~collision_field[<< 0, 0, 0 >>].player_free
    /\ collision_field[<< 1, 0, 0 >>].player_free
    /\ temperature_field[<< 0, 0, 0 >>] = AmbientTemp + 10 * TempOne - 1
    /\ temperature_field[<< 1, 0, 0 >>] \notin SeedValues

\* C28: repellent flask state invariant.  After any sequence of
\* do_fill_liquid, set_trigger and update calls on the default flask,
\* 0 <= qty <= 400; an active flask has liquid and qty >= 1; an empty flask
\* is inactive with qty 0; set_trigger on an empty flask changes nothing; and
\* a full flask that is triggered and then only updated is active with
\* 400 - n left after n < 400 updates, empty and inactive after the 400th.
C28_FlaskInvariant ==
    flask # << >> =>
      LET f == flask.self IN
        /\ f.qty \in 0 .. MAX_QTY
        /\ f.active => f.liquid_content # {} /\ f.qty >= 1
        /\ f.liquid_content = {} => ~f.active /\ f.qty = 0
        /\ flask.last = "set_trigger" /\ flask.before.liquid_content = {}
              => f = flask.before
        /\ flask.run \in 0 .. (MAX_QTY - 1)
              => f.active /\ f.liquid_content # {} /\ f.qty = MAX_QTY - flask.run
        /\ flask.run = MAX_QTY
              => ~f.active /\ f.liquid_content = {} /\ f.qty = 0

\* The 400th update after the trigger of a full flask has just emptied it,
\* on a flask that was filled a second time
C28_Witness ==
    /\ flask # << >>
    /\ flask.run = MAX_QTY
    /\ flask.last = "update"
    /\ flask.before = [ liquid_content |-> { "Dullahan" }, active |-> TRUE, qty |-> 1 ]
    /\ flask.self = default_flask
    /\ flask.repellent_used_amt = 2

\* A step of update_score on the summary screen
ScoreStep == summary # << >> /\ summary'.app_state = "Summary" /\ summary.app_state = "Summary"

\* C29: score display convergence.  While the application stays in the
\* Summary state with calculate_score() at S: from final_score <= S no step
\* makes final_score exceed S and every step below S increases it; from
\* final_score > S one step sets it to S; and final_score reaches S and stays
\* there.
C29_ScoreConvergence ==
    /\ [][ ScoreStep =>
             LET S == calculate_score(summary) IN
               /\ summary.final_score <= S => summary'.final_score <= S
               /\ summary.final_score < S => summary'.final_score > summary.final_score
               /\ summary.final_score > S => summary'.final_score = S
               /\ summary.final_score = S => summary'.final_score = S
         ]_vars
    /\ \/ <>(summary.app_state # "Summary")
       \/ <>[](summary.final_score = calculate_score(summary))

\* The display on its way from 0 to the highest score, one step of 9 short
\* of it after 1449 steps
C29_Witness ==
    /\ summary # << >>
    /\ summary.app_state = "Summary"
    /\ summary.score = MaxScore
    /\ summary.final_score = MaxScore - 9

\* C30: ghost hunt invariant.  After every ghost_movement step, whatever the
\* steps and the random choices before it: a ghost with hunt_target = true
\* has a target_point, hunting >= 0 and warp >= 0, and a ghost whose hunting
\* value went below zero in the step has hunt_target = false and
\* hunting = 0.
C30_GhostHunt ==
    ghost # << >> /\ ghost.last = "ghost_movement" /\ ~ghost.sprite.panicked =>
      LET g == ghost.sprite IN
        /\ g.hunt_target => g.target_point # {}
        /\ g.hunting >= 0
        /\ g.warp >= 0
        /\ ghost.dropped => ~g.hunt_target /\ g.hunting = 0

\* A hunt has just run out: the step took the hunting value below zero, and
\* the ghost has picked a new wandering target while it still warps
C30_Witness ==
    /\ ghost # << >>
    /\ ghost.last = "ghost_movement"
    /\ ghost.dropped
    /\ ~ghost.sprite.hunt_target
    /\ ghost.sprite.target_point = { "wander" }
    /\ ghost.sprite.warp > 0

====
